---- MODULE Spec2Model ----
(***************************************************************************)
(* Model of the RFM9x LoRa driver (adafruit_rfm9x.py): the register bus    *)
(* and its bit-field accessors, the operating-mode helpers, send, the      *)
(* receive path and the interrupt callback.  Driver methods are operators  *)
(* over a machine record (the chip as seen through the register bus);      *)
(* each action applies one whole method call or one hardware event.        *)
(***************************************************************************)
EXTENDS Integers, Sequences, FiniteSets, TLC

(***************************************************************************)
(* Program constants (source lines are listed in the model map).           *)
(***************************************************************************)
RH_RF95_REG_00_FIFO == 0
RH_RF95_REG_01_OP_MODE == 1
RH_RF95_REG_06_FRF_MSB == 6
RH_RF95_REG_07_FRF_MID == 7
RH_RF95_REG_08_FRF_LSB == 8
RH_RF95_REG_09_PA_CONFIG == 9
RH_RF95_REG_0D_FIFO_ADDR_PTR == 13
RH_RF95_REG_0E_FIFO_TX_BASE_ADDR == 14
RH_RF95_REG_0F_FIFO_RX_BASE_ADDR == 15
RH_RF95_REG_10_FIFO_RX_CURRENT_ADDR == 16
RH_RF95_REG_12_IRQ_FLAGS == 18
RH_RF95_REG_13_RX_NB_BYTES == 19
RH_RF95_REG_19_PKT_SNR_VALUE == 25
RH_RF95_REG_1A_PKT_RSSI_VALUE == 26
RH_RF95_REG_1D_MODEM_CONFIG1 == 29
RH_RF95_REG_1E_MODEM_CONFIG2 == 30
RH_RF95_REG_20_PREAMBLE_MSB == 32
RH_RF95_REG_21_PREAMBLE_LSB == 33
RH_RF95_REG_22_PAYLOAD_LENGTH == 34
RH_RF95_REG_26_MODEM_CONFIG3 == 38
RH_RF95_DETECTION_OPTIMIZE == 49
RH_RF95_DETECTION_THRESHOLD == 55
RH_RF95_REG_40_DIO_MAPPING1 == 64
RH_RF95_REG_42_VERSION == 66
RH_RF95_REG_4D_PA_DAC == 77

RH_RF95_MODE_RXCONTINUOUS == 5
RH_RF95_RX_DONE == 64
RH_RF95_PAYLOAD_CRC_ERROR == 32
RH_RF95_TX_DONE == 8
RH_BROADCAST_ADDRESS == 255
RH_RF95_PA_DAC_DISABLE == 4
RH_RF95_PA_DAC_ENABLE == 7

SLEEP_MODE == 0
STANDBY_MODE == 1
TX_MODE == 3
RX_MODE == 5
FLAGS_ACK == 128

\* the ACK sentinel byte b'!' of receive_packet
ACK_BYTE == 33
\* a send limit one byte too generous
MAX_DATA_LEN_253 == 252 + 1

\* largest payload send accepts, and the id at which allocation rolls over
MAX_DATA_LEN == 252
ID_ROLLOVER == 254
\* the chip version __init__ expects, and the default preamble length
EXPECTED_VERSION == 18
DEFAULT_PREAMBLE == 8
\* default timeout of send, in clock units (seconds)
DEFAULT_TIMEOUT == 2
\* a register and a bus byte are 8 bits wide; the FIFO has 2^8 cells
BYTE_RANGE == 256

\* the value of an attribute that is not set (Python's None)
None == -1

(***************************************************************************)
(* Bounds of the model.                                                    *)
(***************************************************************************)
\* ids a destination may be allocated in the general specification
MaxSeq == 2
\* packets the queue holds before the radio environment pauses
MaxQueue == 1
\* largest timeout (in clock units) the application passes to send
MaxTimeout == 3

(***************************************************************************)
(* Bit arithmetic on non-negative integers (Python's &, |, <<, >>).        *)
(***************************************************************************)
RECURSIVE BitAnd(_, _)
BitAnd(a, b) ==
    IF a = 0 \/ b = 0 THEN 0
    ELSE (a % 2) * (b % 2) + 2 * BitAnd(a \div 2, b \div 2)

RECURSIVE BitOr(_, _)
BitOr(a, b) ==
    IF a = 0 THEN b
    ELSE IF b = 0 THEN a
    ELSE (IF (a % 2) + (b % 2) > 0 THEN 1 ELSE 0) + 2 * BitOr(a \div 2, b \div 2)

\* a & ~mask
AndNot(a, mask) == a - BitAnd(a, mask)

Shl(v, n) == v * (2 ^ n)

Shr(v, n) == v \div (2 ^ n)

(***************************************************************************)
(* The register bus.  A machine m is the chip as the bus sees it:          *)
(*   regs   register address -> byte                                      *)
(*   fifo   the FIFO cells from cell 0 up to the highest one written       *)
(*   log    the register writes of the current method call, in order      *)
(*   air    the frames handed to the transmitter during the current call   *)
(*   edge   a rising edge of DIO0 is waiting for the interrupt callback    *)
(*   wide   what the bus does with a value that is not a byte              *)
(*   fault  the bus raised an error                                        *)
(*   access the operating mode at each FIFO access of the current call     *)
(*   stuck  the bits of the operating-mode register that do not take a     *)
(*          write (0 on a chip that is wired correctly)                    *)
(***************************************************************************)
Dio0Level(regs) ==
    LET mapping == Shr(regs[RH_RF95_REG_40_DIO_MAPPING1], 6)
        flags   == regs[RH_RF95_REG_12_IRQ_FLAGS]
    IN  \/ mapping = 0 /\ BitAnd(flags, RH_RF95_RX_DONE) # 0
        \/ mapping = 1 /\ BitAnd(flags, RH_RF95_TX_DONE) # 0

\* the chip takes new register contents; DIO0 may rise
Latch(m, regs) ==
    [m EXCEPT !.regs = regs,
              !.edge = m.edge \/ (~Dio0Level(m.regs) /\ Dio0Level(regs))]

read_u8(m, address) == m.regs[address]

IsByte(v) == v \in 0 .. (BYTE_RANGE - 1)

\* the mode bits of the operating-mode register
ModeBits(regs) == regs[RH_RF95_REG_01_OP_MODE] % 8

\* write one register (not the FIFO) through the bus: a 1 written to an IRQ
\* flag clears it, and stuck bits of the operating-mode register stay
WriteReg(m, register, val) ==
    LET logged == [m EXCEPT !.log = Append(m.log, <<register, val>>)]
        stored == IF register = RH_RF95_REG_12_IRQ_FLAGS
                    THEN AndNot(m.regs[register], val)
                  ELSE IF register = RH_RF95_REG_01_OP_MODE /\ m.stuck # 0
                    THEN BitOr(AndNot(val, m.stuck), BitAnd(m.regs[register], m.stuck))
                  ELSE val
    IN  Latch(logged, [m.regs EXCEPT ![register] = stored])

\* cell c of the FIFO; a cell never written reads as 0
FifoCell(m, c) == IF c < Len(m.fifo) THEN m.fifo[c + 1] ELSE 0

\* burst write to the FIFO: the cells from the address pointer on, wrapping
\* at the end of the FIFO (a burst is at most BYTE_RANGE bytes long)
WriteFifo(m, bytes) ==
    LET ptr  == m.regs[RH_RF95_REG_0D_FIFO_ADDR_PTR]
        n    == Len(bytes)
        top  == IF ptr + n > BYTE_RANGE THEN BYTE_RANGE
                ELSE IF ptr + n > Len(m.fifo) THEN ptr + n ELSE Len(m.fifo)
        fifo == [i \in 1 .. top |->
                    IF (i - 1 - ptr) % BYTE_RANGE < n
                      THEN bytes[((i - 1 - ptr) % BYTE_RANGE) + 1]
                      ELSE FifoCell(m, i - 1)]
    IN  [m EXCEPT !.fifo = fifo,
                  !.log = Append(m.log, <<RH_RF95_REG_00_FIFO, bytes>>),
                  !.access = Append(m.access, ModeBits(m.regs)),
                  !.regs = [m.regs EXCEPT ![RH_RF95_REG_0D_FIFO_ADDR_PTR] =
                                (ptr + n) % BYTE_RANGE]]

write_u8(m, register, payload) ==
    IF \A i \in 1 .. Len(payload) : IsByte(payload[i])
      THEN IF register = RH_RF95_REG_00_FIFO
             THEN WriteFifo(m, payload)
             ELSE WriteReg(m, register, payload[1])
      ELSE IF m.wide = "truncate"
             THEN WriteReg(m, register, payload[1] % BYTE_RANGE)
             ELSE [m EXCEPT !.fault = TRUE]

\* burst read of length bytes from the FIFO
spi_read_fifo(m, length) ==
    LET ptr == m.regs[RH_RF95_REG_0D_FIFO_ADDR_PTR]
    IN  [i \in 1 .. length |-> FifoCell(m, (ptr + i - 1) % BYTE_RANGE)]

AfterFifoRead(m, length) ==
    [m EXCEPT !.access = Append(m.access, ModeBits(m.regs)),
              !.regs = [m.regs EXCEPT ![RH_RF95_REG_0D_FIFO_ADDR_PTR] =
                           (m.regs[RH_RF95_REG_0D_FIFO_ADDR_PTR] + length) % BYTE_RANGE]]

(***************************************************************************)
(* _RegisterBits                                                           *)
(***************************************************************************)
RegisterBits(address, offset, bits) ==
    [address |-> address, mask |-> Shl((2 ^ bits) - 1, offset), offset |-> offset]

RegisterBits_get(m, field) ==
    Shr(BitAnd(read_u8(m, field.address), field.mask), field.offset)

\* a setter that does not clear the field before it writes the value
RegisterBits_set_or(m, field, val) ==
    write_u8(m, field.address,
             <<BitOr(read_u8(m, field.address), Shl(BitAnd(val, 255), field.offset))>>)

RegisterBits_set(m, field, val) ==
    LET reg_value == AndNot(read_u8(m, field.address), field.mask)
    IN  write_u8(m, field.address,
                 <<BitOr(reg_value, Shl(BitAnd(val, 255), field.offset))>>)

operation_mode == RegisterBits(RH_RF95_REG_01_OP_MODE, 0, 3)
low_frequency_mode == RegisterBits(RH_RF95_REG_01_OP_MODE, 3, 1)
modulation_type == RegisterBits(RH_RF95_REG_01_OP_MODE, 5, 2)
long_range_mode == RegisterBits(RH_RF95_REG_01_OP_MODE, 7, 1)
output_power == RegisterBits(RH_RF95_REG_09_PA_CONFIG, 0, 4)
max_power == RegisterBits(RH_RF95_REG_09_PA_CONFIG, 4, 3)
pa_select == RegisterBits(RH_RF95_REG_09_PA_CONFIG, 7, 1)
pa_dac == RegisterBits(RH_RF95_REG_4D_PA_DAC, 0, 3)
dio0_mapping == RegisterBits(RH_RF95_REG_40_DIO_MAPPING1, 6, 2)
tx_done == RegisterBits(RH_RF95_REG_12_IRQ_FLAGS, 3, 1)
rx_done == RegisterBits(RH_RF95_REG_12_IRQ_FLAGS, 6, 1)
crc_error == RegisterBits(RH_RF95_REG_12_IRQ_FLAGS, 5, 1)

Mode(m) == RegisterBits_get(m, operation_mode)

IrqFlags(m) == m.regs[RH_RF95_REG_12_IRQ_FLAGS]

(***************************************************************************)
(* Mode helpers                                                            *)
(***************************************************************************)
idle(m) == RegisterBits_set(m, operation_mode, STANDBY_MODE)

\* a sleep() that writes the whole operating-mode register
sleep_whole(m) == write_u8(m, RH_RF95_REG_01_OP_MODE, <<SLEEP_MODE>>)

sleep(m) == RegisterBits_set(m, operation_mode, SLEEP_MODE)

listen(m) ==
    RegisterBits_set(RegisterBits_set(m, operation_mode, RX_MODE), dio0_mapping, 0)

transmit(m) ==
    write_u8(RegisterBits_set(m, operation_mode, TX_MODE),
             RH_RF95_REG_40_DIO_MAPPING1, <<64>>)

\* a driver that takes CRC checking as always enabled
enable_crc_on(m) == TRUE

enable_crc(m) == BitAnd(read_u8(m, RH_RF95_REG_1E_MODEM_CONFIG2), 4) = 4

set_enable_crc(m, val) ==
    IF val
      THEN write_u8(m, RH_RF95_REG_1E_MODEM_CONFIG2,
                    <<BitOr(read_u8(m, RH_RF95_REG_1E_MODEM_CONFIG2), 4)>>)
      ELSE write_u8(m, RH_RF95_REG_1E_MODEM_CONFIG2,
                    <<BitAnd(read_u8(m, RH_RF95_REG_1E_MODEM_CONFIG2), 251)>>)

\* what a setter that can fail returns: the machine and "ok" or the error
ConfigResult(m, status) == [m |-> m, status |-> status]

\* lines 508-512
set_preamble_length(m, val) ==
    IF ~(0 <= val /\ val <= 65535)
      THEN ConfigResult(m, "AssertionError")
      ELSE ConfigResult(
             write_u8(write_u8(m, RH_RF95_REG_20_PREAMBLE_MSB, <<BitAnd(Shr(val, 8), 255)>>),
                      RH_RF95_REG_21_PREAMBLE_LSB, <<BitAnd(val, 255)>>),
             "ok")

\* 1000000.0 / _RH_RF95_FSTEP: register steps per MHz (FSTEP = 32 MHz / 2^19)
STEPS_PER_MHZ == 16384

\* the three frequency registers take the bytes of frf
WriteFrf(m, frf) ==
    write_u8(write_u8(write_u8(m, RH_RF95_REG_06_FRF_MSB, <<Shr(frf, 16)>>),
                      RH_RF95_REG_07_FRF_MID, <<BitAnd(Shr(frf, 8), 255)>>),
             RH_RF95_REG_08_FRF_LSB, <<BitAnd(frf, 255)>>)

\* lines 526-538; val is a whole number of MHz
set_frequency_mhz(m, val) ==
    IF val < 240 \/ val > 960
      THEN ConfigResult(m, "RuntimeError")
      ELSE ConfigResult(WriteFrf(m, (val * STEPS_PER_MHZ) % (2 ^ 24)), "ok")

\* min(max(val, low), high)
Clamp(val, low, high) == IF val < low THEN low ELSE IF val > high THEN high ELSE val

\* int(val) of a power given in half dBm: the fraction is dropped
Trunc(half) == IF half >= 0 THEN half \div 2 ELSE -((-half) \div 2)

\* a whole number of dBm, in half dBm
Half(n) == 2 * n

\* lines 540-553
tx_power(m, high) ==
    IF high THEN RegisterBits_get(m, output_power) + 5
    ELSE RegisterBits_get(m, output_power) - 1

\* a setter that stores the power above 20 dBm without the reduction by 3
TxPowerHigh_full(m, val) ==
    RegisterBits_set(
      RegisterBits_set(
        RegisterBits_set(m, pa_dac,
                         IF val > 20 THEN RH_RF95_PA_DAC_ENABLE ELSE RH_RF95_PA_DAC_DISABLE),
        pa_select, 1),
      output_power, BitAnd(val - 5, 15))

\* lines 563-569: PA DAC, PA select, output power of a high-power unit
TxPowerHigh(m, val) ==
    RegisterBits_set(
      RegisterBits_set(
        RegisterBits_set(m, pa_dac,
                         IF val > 20 THEN RH_RF95_PA_DAC_ENABLE ELSE RH_RF95_PA_DAC_DISABLE),
        pa_select, 1),
      output_power, BitAnd((IF val > 20 THEN val - 3 ELSE val) - 5, 15))

\* lines 572-574: PA select, max power, output power of a low-power unit
TxPowerLow(m, val) ==
    RegisterBits_set(
      RegisterBits_set(RegisterBits_set(m, pa_select, 0), max_power, 7),
      output_power, BitAnd(val + 1, 15))

\* a setter that clamps a power out of range instead of failing
set_tx_power_clamped(m, high, half) ==
    IF high
      THEN ConfigResult(TxPowerHigh(m, Clamp(Trunc(half), 5, 23)), "ok")
      ELSE ConfigResult(TxPowerLow(m, Clamp(Trunc(half), -1, 14)), "ok")

\* lines 555-574; half is the value in half dBm
set_tx_power(m, high, half) ==
    IF high
      THEN IF Trunc(half) < 5 \/ Trunc(half) > 23
             THEN ConfigResult(m, "RuntimeError")
             ELSE ConfigResult(TxPowerHigh(m, Trunc(half)), "ok")
      ELSE IF ~(-1 <= Trunc(half) /\ Trunc(half) <= 14)
             THEN ConfigResult(m, "AssertionError")
             ELSE ConfigResult(TxPowerLow(m, Trunc(half)), "ok")

bw_bins == <<7800, 10400, 15600, 20800, 31250, 41700, 62500, 125000, 250000>>

\* lines 587-598
signal_bandwidth(m) ==
    LET bw_id == Shr(BitAnd(read_u8(m, RH_RF95_REG_1D_MODEM_CONFIG1), 240), 4)
    IN  IF bw_id >= Len(bw_bins) THEN 500000 ELSE bw_bins[bw_id + 1]

\* a search that takes the largest bin below the value
RECURSIVE BwSearch_below(_, _)
BwSearch_below(val, bw_id) ==
    IF bw_id >= Len(bw_bins) THEN 9
    ELSE IF val < bw_bins[bw_id + 1] THEN (IF bw_id = 0 THEN 0 ELSE bw_id - 1)
    ELSE BwSearch_below(val, bw_id + 1)

\* lines 603-607: the index of the first bin that is not below val, or 9
RECURSIVE BwSearch(_, _)
BwSearch(val, bw_id) ==
    IF bw_id >= Len(bw_bins) THEN 9
    ELSE IF val <= bw_bins[bw_id + 1] THEN bw_id
    ELSE BwSearch(val, bw_id + 1)

\* lines 600-611
set_signal_bandwidth(m, val) ==
    write_u8(m, RH_RF95_REG_1D_MODEM_CONFIG1,
             <<BitOr(BitAnd(read_u8(m, RH_RF95_REG_1D_MODEM_CONFIG1), 15),
                     Shl(BwSearch(val, 0), 4))>>)

\* lines 613-621
coding_rate(m) == Shr(BitAnd(read_u8(m, RH_RF95_REG_1D_MODEM_CONFIG1), 14), 1) + 4

\* lines 623-631
set_coding_rate(m, val) ==
    write_u8(m, RH_RF95_REG_1D_MODEM_CONFIG1,
             <<BitOr(BitAnd(read_u8(m, RH_RF95_REG_1D_MODEM_CONFIG1), 241),
                     Shl(Clamp(val, 5, 8) - 4, 1))>>)

\* lines 633-640
spreading_factor(m) == Shr(BitAnd(read_u8(m, RH_RF95_REG_1E_MODEM_CONFIG2), 240), 4)

\* lines 652-658: m is the machine after the two detection registers
SpreadingConfig(m, val) ==
    write_u8(m, RH_RF95_REG_1E_MODEM_CONFIG2,
             <<BitOr(BitAnd(read_u8(m, RH_RF95_REG_1E_MODEM_CONFIG2), 15),
                     BitAnd(Shl(val, 4), 240))>>)

\* lines 642-658
set_spreading_factor(m, val) ==
    SpreadingConfig(
      write_u8(write_u8(m, RH_RF95_DETECTION_OPTIMIZE,
                        <<IF Clamp(val, 6, 12) = 6 THEN 197 ELSE 195>>),
               RH_RF95_DETECTION_THRESHOLD,
               <<IF Clamp(val, 6, 12) = 6 THEN 12 ELSE 10>>),
      Clamp(val, 6, 12))

rssi(m) == read_u8(m, RH_RF95_REG_1A_PKT_RSSI_VALUE) - 137

\* the quotient raw / 4 as the pair <<integer part, remaining quarters>>
snr(m) ==
    LET raw == read_u8(m, RH_RF95_REG_19_PKT_SNR_VALUE)
    IN  <<raw \div 4, raw % 4>>

(***************************************************************************)
(* The radio environment of one method call.                               *)
(*   txAt   clock units after entering Tx at which the chip raises         *)
(*          transmit-complete, or Never                                    *)
(*   tick   clock units that pass per iteration of the completion poll     *)
(***************************************************************************)
Never == -1

HwTxDone(m) ==
    Latch(m, [m.regs EXCEPT ![RH_RF95_REG_12_IRQ_FLAGS] =
                  BitOr(m.regs[RH_RF95_REG_12_IRQ_FLAGS], RH_RF95_TX_DONE)])

\* the value self.tx_done reads t clock units after the poll began
TxDoneSeen(m, env, t) ==
    \/ RegisterBits_get(m, tx_done) # 0
    \/ env.txAt # Never /\ env.txAt <= t

\* a poll that gives up one iteration early
RECURSIVE PollTxDone_early(_, _, _, _)
PollTxDone_early(m, env, timeout, t) ==
    IF TxDoneSeen(m, env, t) THEN [timed_out |-> FALSE, elapsed |-> t]
    ELSE IF t + env.tick >= timeout THEN [timed_out |-> TRUE, elapsed |-> t]
    ELSE PollTxDone_early(m, env, timeout, t + env.tick)

\* the completion poll of send, entered t clock units after start
RECURSIVE PollTxDone(_, _, _, _)
PollTxDone(m, env, timeout, t) ==
    IF TxDoneSeen(m, env, t) THEN [timed_out |-> FALSE, elapsed |-> t]
    ELSE IF t >= timeout THEN [timed_out |-> TRUE, elapsed |-> t]
    ELSE PollTxDone(m, env, timeout, t + env.tick)

\* the frame the transmitter takes from the FIFO when Tx mode is entered
AirFrame(m) ==
    LET base == m.regs[RH_RF95_REG_0E_FIFO_TX_BASE_ADDR]
    IN  [i \in 1 .. m.regs[RH_RF95_REG_22_PAYLOAD_LENGTH] |->
            FifoCell(m, (base + i - 1) % BYTE_RANGE)]

OnAir(m) == [m EXCEPT !.air = Append(m.air, AirFrame(m))]

(***************************************************************************)
(* send.  tx_header is [kind, v]: a tuple or a list of four bytes.         *)
(* The result carries the machine, last_sent_id, the header object as the  *)
(* call leaves it, and how the call ended.                                 *)
(***************************************************************************)
ListHeader(to, from, id, flags) == [kind |-> "list", v |-> <<to, from, id, flags>>]

TupleHeader(to, from, id, flags) == [kind |-> "tuple", v |-> <<to, from, id, flags>>]

DefaultTxHeader == TupleHeader(RH_BROADCAST_ADDRESS, RH_BROADCAST_ADDRESS, 0, 0)

\* an allocation that rolls over one id late
NextId_late(last_sent_id, to) ==
    LET id == IF to \in DOMAIN last_sent_id THEN last_sent_id[to] + 1 ELSE 1
    IN  IF id < ID_ROLLOVER + 1 THEN id ELSE 1

\* lines 699-707: the id send puts in the header
NextId(last_sent_id, to) ==
    LET id == IF to \in DOMAIN last_sent_id THEN last_sent_id[to] + 1 ELSE 1
    IN  IF id < ID_ROLLOVER THEN id ELSE 1

DictSet(dict, key, val) ==
    [k \in (DOMAIN dict) \cup {key} |-> IF k = key THEN val ELSE dict[k]]

SendResult(m, last_sent_id, tx_header, status, elapsed) ==
    [m |-> m, last_sent_id |-> last_sent_id, tx_header |-> tx_header,
     status |-> status, elapsed |-> elapsed]

\* lines 726-736: poll, idle, clear the flags
SendEnd(m, last_sent_id, tx_header, env, poll) ==
    SendResult(
      write_u8(idle(IF env.txAt # Never /\ env.txAt <= poll.elapsed
                      THEN HwTxDone(m) ELSE m),
               RH_RF95_REG_12_IRQ_FLAGS, <<255>>),
      last_sent_id, tx_header, IF poll.timed_out THEN "Timeout" ELSE "ok", poll.elapsed)

SendFinish(m, last_sent_id, tx_header, timeout, env) ==
    SendEnd(m, last_sent_id, tx_header, env, PollTxDone(m, env, timeout, 0))

\* lines 722-723: with the FIFO filled (unless the bus raised an error),
\* start the transmitter
SendStart(m, last_sent_id, tx_header, timeout, env) ==
    IF m.fault
      THEN SendResult(m, last_sent_id, tx_header, "BusError", 0)
      ELSE SendFinish(OnAir(transmit(m)), last_sent_id, tx_header, timeout, env)

\* lines 710-721: Standby, FIFO pointer, header and payload, payload length
SendFill(m, payload) ==
    write_u8(write_u8(write_u8(idle(m), RH_RF95_REG_0D_FIFO_ADDR_PTR, <<0>>),
                      RH_RF95_REG_00_FIFO, payload),
             RH_RF95_REG_22_PAYLOAD_LENGTH, <<Len(payload)>>)

\* lines 710-723: fill the FIFO and start the transmitter
SendTransmit(m, last_sent_id, data, timeout, tx_header, env) ==
    SendStart(SendFill(m, tx_header.v \o data), last_sent_id, tx_header, timeout, env)

send(m, last_sent_id, data, timeout, tx_header, env) ==
    IF ~(0 < Len(data) /\ Len(data) <= MAX_DATA_LEN)
      THEN SendResult(m, last_sent_id, tx_header, "AssertionError", 0)
    ELSE IF tx_header.v[3] = 0
      THEN IF tx_header.kind = "tuple"
             THEN SendResult(m, last_sent_id, tx_header, "TypeError", 0)
             ELSE LET id == NextId(last_sent_id, tx_header.v[1])
                  IN  SendTransmit(m, DictSet(last_sent_id, tx_header.v[1], id),
                                   data, timeout, [tx_header EXCEPT !.v[3] = id], env)
    ELSE SendTransmit(m, last_sent_id, data, timeout, tx_header, env)

(***************************************************************************)
(* receive_packet and the interrupt callback.                              *)
(* d is the driver: [m, last_sent_id, last_received_id,                    *)
(* receive_filter_address, acks].  The result is the driver after the      *)
(* call, the value returned (None or a packet) and the way the call ended: *)
(*   "none"       not in RxContinuous or receive-complete not set          *)
(*   "crc"        dropped for a CRC error                                  *)
(*   "filtered"   dropped by the address filter                            *)
(*   "duplicate"  dropped as a duplicate                                   *)
(*   "ack"        dropped as a pure ACK                                    *)
(*   "delivered"  a packet is returned                                     *)
(*   "raised"     the send of the ACK raised an error                      *)
(***************************************************************************)
Packet(data, rssi_value, snr_value) ==
    [data |-> data, rssi |-> rssi_value, snr |-> snr_value]

\* what receive_packet returns: nothing (None), or one packet
Nothing == <<>>

Returned(packet) == <<packet>>

Tail4(packet) == SubSeq(packet, 5, Len(packet))

\* _read_into: _spi_read returns a bare int for a length of 1, which the
\* slice assignment rejects, so the buffer keeps its zero byte
read_into(m, length) ==
    IF length = 1 THEN <<0>> ELSE spi_read_fifo(m, length)

RecvResult(d, m, ret, outcome) ==
    [d |-> [d EXCEPT !.m = m], ret |-> ret, outcome |-> outcome]

\* a receive path without the ACK test
ReceiveDeliver_every(d, m, packet, with_header, rssi_value, snr_value) ==
    RecvResult(d, listen(m), Returned(Packet(packet, rssi_value, snr_value)),
               "delivered")

\* lines 781-787: the ACK test, listen, return the packet
ReceiveDeliver(d, m, packet, with_header, rssi_value, snr_value) ==
    IF with_header /\ Len(packet) = 1 /\ packet[1] = ACK_BYTE
      THEN RecvResult(d, listen(m), Nothing, "ack")
      ELSE RecvResult(d, listen(m), Returned(Packet(packet, rssi_value, snr_value)),
                      "delivered")

\* a receive path without the duplicate test
ReceiveDedup_never(d, m, packet, rssi_value, snr_value) ==
    ReceiveDeliver(
      [d EXCEPT !.last_received_id = DictSet(@, packet[2], packet[3])],
      m, Tail4(packet), TRUE, rssi_value, snr_value)

\* lines 772-779: duplicate test, record the id, strip the header
ReceiveDedup(d, m, packet, rssi_value, snr_value) ==
    LET header_from == packet[2]
        header_id   == packet[3]
        seen        == IF header_from \in DOMAIN d.last_received_id
                         THEN d.last_received_id[header_from] = header_id
                         ELSE FALSE
    IN  IF seen
          THEN RecvResult(d, listen(m), Nothing, "duplicate")
          ELSE ReceiveDeliver(
                 [d EXCEPT !.last_received_id = DictSet(@, header_from, header_id)],
                 m, Tail4(packet), TRUE, rssi_value, snr_value)

\* line 770 on: r is the result of the send of the ACK; an error it raised
\* ends receive_packet
ReceiveAcked(d, packet, rssi_value, snr_value, r) ==
    IF r.status # "ok"
      THEN RecvResult([d EXCEPT !.last_sent_id = r.last_sent_id], r.m, Nothing, "raised")
      ELSE ReceiveDedup([d EXCEPT !.last_sent_id = r.last_sent_id], r.m, packet,
                        rssi_value, snr_value)

\* a receive path that acknowledges frames whatever their ACK flag
ReceiveHeader_always(d, m, packet, rssi_value, snr_value, env) ==
    IF d.receive_filter_address # None /\ packet[1] # d.receive_filter_address
      THEN RecvResult(d, listen(m), Nothing, "filtered")
    ELSE IF d.acks
      THEN ReceiveAcked(d, packet, rssi_value, snr_value,
                        send(m, d.last_sent_id, <<ACK_BYTE>>, DEFAULT_TIMEOUT,
                             ListHeader(packet[2], d.receive_filter_address,
                                        packet[3], FLAGS_ACK), env))
    ELSE ReceiveDedup(d, m, packet, rssi_value, snr_value)

\* lines 755-770: parse the header, filter, acknowledge
ReceiveHeader(d, m, packet, rssi_value, snr_value, env) ==
    LET header_to    == packet[1]
        header_from  == packet[2]
        header_id    == packet[3]
        header_flags == packet[4]
    IN  IF d.receive_filter_address # None /\ header_to # d.receive_filter_address
          THEN RecvResult(d, listen(m), Nothing, "filtered")
        ELSE IF d.acks /\ BitAnd(header_flags, FLAGS_ACK) = 0
          THEN ReceiveAcked(d, packet, rssi_value, snr_value,
                            send(m, d.last_sent_id, <<ACK_BYTE>>, DEFAULT_TIMEOUT,
                                 ListHeader(header_from, d.receive_filter_address,
                                            header_id, FLAGS_ACK), env))
        ELSE ReceiveDedup(d, m, packet, rssi_value, snr_value)

\* lines 754-787: m is the machine after the FIFO read
ReceiveRoute(d, m, packet, with_header, rssi_value, snr_value, env) ==
    IF with_header /\ Len(packet) >= 4
      THEN ReceiveHeader(d, m, packet, rssi_value, snr_value, env)
      ELSE ReceiveDeliver(d, m, packet, with_header, rssi_value, snr_value)

\* lines 750-754: m is the machine with the FIFO pointer on the frame
ReceiveRead(d, m, packet_len, with_header, env) ==
    ReceiveRoute(d, write_u8(AfterFifoRead(m, packet_len),
                             RH_RF95_REG_12_IRQ_FLAGS, <<255>>),
                 read_into(m, packet_len), with_header, rssi(m), snr(m), env)

receive_packet(d, with_header, env) ==
    IF RegisterBits_get(d.m, operation_mode) = RH_RF95_MODE_RXCONTINUOUS
       /\ BitAnd(read_u8(d.m, RH_RF95_REG_12_IRQ_FLAGS), RH_RF95_RX_DONE) # 0
      THEN IF enable_crc(d.m) /\ RegisterBits_get(d.m, crc_error) # 0
             THEN RecvResult(d, write_u8(d.m, RH_RF95_REG_12_IRQ_FLAGS, <<255>>),
                             Nothing, "crc")
             ELSE ReceiveRead(d,
                              write_u8(d.m, RH_RF95_REG_0D_FIFO_ADDR_PTR,
                                       <<read_u8(d.m, RH_RF95_REG_10_FIFO_RX_CURRENT_ADDR)>>),
                              read_u8(d.m, RH_RF95_REG_13_RX_NB_BYTES),
                              with_header, env)
      ELSE RecvResult(d, d.m, Nothing, "none")

\* a queue that takes a packet at its head
QueuePut_front(r, queue) ==
    [r |-> r, queue |-> IF r.ret # Nothing THEN r.ret \o queue ELSE queue]

\* lines 425-426: a packet that receive_packet returned is put on the queue
QueuePut(r, queue) ==
    [r |-> r, queue |-> IF r.ret # Nothing THEN queue \o r.ret ELSE queue]

\* _handle_interrupt: the result of receive_packet and the queue
handle_interrupt(d, queue, env) ==
    IF RegisterBits_get(d.m, tx_done) # 0
      THEN [r |-> RecvResult(d, d.m, Nothing, "tx_done"), queue |-> queue]
    ELSE IF RegisterBits_get(d.m, rx_done) # 0
            /\ RegisterBits_get(d.m, operation_mode) = RX_MODE
      THEN QueuePut(receive_packet(d, TRUE, env), queue)
    ELSE [r |-> RecvResult(d, d.m, Nothing, "none"), queue |-> queue]

\* the chip completes a reception: the frame is in the FIFO at the Rx base
\* address, the status registers describe it and receive-complete is set
HwRxDone(m, frame, crc_bad, rssi_raw, snr_raw) ==
    LET base  == m.regs[RH_RF95_REG_0F_FIFO_RX_BASE_ADDR]
        at    == [m EXCEPT !.regs[RH_RF95_REG_0D_FIFO_ADDR_PTR] = base]
        wrote == WriteFifo(at, frame)
        flags == BitOr(m.regs[RH_RF95_REG_12_IRQ_FLAGS],
                       IF crc_bad THEN RH_RF95_RX_DONE + RH_RF95_PAYLOAD_CRC_ERROR
                       ELSE RH_RF95_RX_DONE)
    IN  Latch([m EXCEPT !.fifo = wrote.fifo],
              [m.regs EXCEPT ![RH_RF95_REG_12_IRQ_FLAGS] = flags,
                             ![RH_RF95_REG_13_RX_NB_BYTES] = Len(frame),
                             ![RH_RF95_REG_10_FIFO_RX_CURRENT_ADDR] = base,
                             ![RH_RF95_REG_1A_PKT_RSSI_VALUE] = rssi_raw,
                             ![RH_RF95_REG_19_PKT_SNR_VALUE] = snr_raw])

(***************************************************************************)
(* State                                                                   *)
(***************************************************************************)
VARIABLES
    chip,                    \* the machine: registers, FIFO, DIO0 edge, bus log
    last_sent_id,            \* self.last_sent_id
    last_received_id,        \* self.last_received_id
    packet_queue,            \* self.packet_queue
    receive_filter_address,  \* self.receive_filter_address
    acks,                    \* self.acks
    call,                    \* the most recent method call: arguments and outcome
    heard,                   \* per source, the id of the last frame whose header
                             \* receive_packet parsed, and how that call ended
    high_power,              \* self.high_power
    run                      \* the calls in progress that other calls may
                             \* interleave with: position and locals of the
                             \* application's send and of the interrupt callback

vars == <<chip, last_sent_id, last_received_id, packet_queue,
          receive_filter_address, acks, call, heard, high_power, run>>

\* the frequency (MHz) the driver is constructed with
Frequency == 915

\* register contents after a chip reset (the registers the driver touches)
ResetRegs ==
    [r \in {RH_RF95_REG_01_OP_MODE, RH_RF95_REG_06_FRF_MSB, RH_RF95_REG_07_FRF_MID,
            RH_RF95_REG_08_FRF_LSB, RH_RF95_REG_09_PA_CONFIG,
            RH_RF95_REG_0D_FIFO_ADDR_PTR,
            RH_RF95_REG_0E_FIFO_TX_BASE_ADDR, RH_RF95_REG_0F_FIFO_RX_BASE_ADDR,
            RH_RF95_REG_10_FIFO_RX_CURRENT_ADDR, RH_RF95_REG_12_IRQ_FLAGS,
            RH_RF95_REG_13_RX_NB_BYTES, RH_RF95_REG_19_PKT_SNR_VALUE,
            RH_RF95_REG_1A_PKT_RSSI_VALUE, RH_RF95_REG_1D_MODEM_CONFIG1,
            RH_RF95_REG_1E_MODEM_CONFIG2, RH_RF95_REG_20_PREAMBLE_MSB,
            RH_RF95_REG_21_PREAMBLE_LSB, RH_RF95_REG_22_PAYLOAD_LENGTH,
            RH_RF95_REG_26_MODEM_CONFIG3, RH_RF95_DETECTION_OPTIMIZE,
            RH_RF95_DETECTION_THRESHOLD, RH_RF95_REG_40_DIO_MAPPING1,
            RH_RF95_REG_42_VERSION, RH_RF95_REG_4D_PA_DAC} |->
        CASE r = RH_RF95_REG_01_OP_MODE -> 9
          [] r = RH_RF95_REG_06_FRF_MSB -> 108
          [] r = RH_RF95_REG_07_FRF_MID -> 128
          [] r = RH_RF95_REG_09_PA_CONFIG -> 79
          [] r = RH_RF95_REG_0E_FIFO_TX_BASE_ADDR -> 128
          [] r = RH_RF95_REG_1D_MODEM_CONFIG1 -> 114
          [] r = RH_RF95_REG_1E_MODEM_CONFIG2 -> 112
          [] r = RH_RF95_REG_21_PREAMBLE_LSB -> 8
          [] r = RH_RF95_REG_22_PAYLOAD_LENGTH -> 1
          [] r = RH_RF95_REG_26_MODEM_CONFIG3 -> 4
          [] r = RH_RF95_DETECTION_OPTIMIZE -> 195
          [] r = RH_RF95_DETECTION_THRESHOLD -> 10
          [] r = RH_RF95_REG_42_VERSION -> EXPECTED_VERSION
          [] r = RH_RF95_REG_4D_PA_DAC -> 132
          [] OTHER -> 0]

ResetChip ==
    [regs |-> ResetRegs, fifo |-> <<>>, log |-> <<>>, air |-> <<>>,
     edge |-> FALSE, wide |-> "reject", fault |-> FALSE, access |-> <<>>,
     stuck |-> 0]

\* __init__, line 410: the default power, unless the frequency was refused
ConstructPower(r, high) ==
    IF r.status # "ok" THEN r ELSE set_tx_power(r.m, high, Half(13))

\* __init__, line 408: the frequency, unless the preamble length was refused
ConstructRadio(r, frequency, high) ==
    IF r.status # "ok" THEN r
    ELSE ConstructPower(set_frequency_mhz(r.m, frequency), high)

\* __init__, lines 396-410: Standby, the modem configuration, the radio
ConstructModem(m, frequency, high, preamble_length) ==
    ConstructRadio(
      set_preamble_length(
        write_u8(
          set_enable_crc(
            set_spreading_factor(
              set_coding_rate(set_signal_bandwidth(idle(m), 125000), 5), 7),
            FALSE),
          RH_RF95_REG_26_MODEM_CONFIG3, <<0>>),
        preamble_length),
      frequency, high)

\* __init__, lines 390-394: the low-frequency bit and the FIFO base addresses
ConstructFifo(m, frequency) ==
    write_u8(write_u8(IF frequency > 525
                        THEN RegisterBits_set(m, low_frequency_mode, 0) ELSE m,
                      RH_RF95_REG_0E_FIFO_TX_BASE_ADDR, <<0>>),
             RH_RF95_REG_0F_FIFO_RX_BASE_ADDR, <<0>>)

\* a constructor that verifies the mode only, not the long-range bit
ConstructVerify_mode(m, frequency, high, preamble_length) ==
    IF RegisterBits_get(m, operation_mode) # SLEEP_MODE
      THEN ConfigResult(m, "RuntimeError")
      ELSE ConstructModem(ConstructFifo(m, frequency), frequency, high, preamble_length)

\* __init__, lines 387-410: m is the machine after sleep() and the write of
\* the long-range bit
ConstructVerify(m, frequency, high, preamble_length) ==
    IF RegisterBits_get(m, operation_mode) # SLEEP_MODE
       \/ RegisterBits_get(m, long_range_mode) = 0
      THEN ConfigResult(m, "RuntimeError")
      ELSE ConstructModem(ConstructFifo(m, frequency), frequency, high, preamble_length)

\* __init__, lines 384-386: Sleep, then the long-range bit
EnterLora(m) == RegisterBits_set(sleep(m), long_range_mode, 1)

\* __init__, lines 378-410: the bus transfers of the constructor
Construct(m, frequency, high, preamble_length) ==
    IF read_u8(m, RH_RF95_REG_42_VERSION) # EXPECTED_VERSION
      THEN ConfigResult(m, "RuntimeError")
      ELSE ConstructVerify(EnterLora(m), frequency, high, preamble_length)

\* a method call starts with an empty bus log
Begin(m, wide) ==
    [m EXCEPT !.log = <<>>, !.air = <<>>, !.wide = wide, !.fault = FALSE,
              !.access = <<>>]

NoCall == [op |-> "init"]

\* no call is in progress
Quiet == [app |-> [pc |-> "out"], irq |-> [pc |-> "out"]]

Init ==
    /\ chip = Begin(Construct(ResetChip, Frequency, TRUE, DEFAULT_PREAMBLE).m, "reject")
    /\ last_sent_id = <<>>
    /\ last_received_id = <<>>
    /\ packet_queue = <<>>
    /\ receive_filter_address = RH_BROADCAST_ADDRESS
    /\ acks = FALSE
    /\ call = NoCall
    /\ heard = <<>>
    /\ high_power = TRUE
    /\ run = Quiet

(***************************************************************************)
(* Construction: RFM9x(reset, interrupt, frequency, high_power=...) on a   *)
(* chip that may be wired wrongly.                                         *)
(***************************************************************************)
\* bits of the operating-mode register that a faulty chip holds
StuckSet == {0, 1, 7, 128, 129, 135}

\* contents of the operating-mode register when the constructor starts:
\* the reset value, and values a chip that was not reset keeps
PowerOnModeSet == {9, 0, 1, 128, 133}

\* chips as the constructor finds them
PowerOnSet ==
    { [ResetChip EXCEPT !.stuck = k,
                        !.regs[RH_RF95_REG_01_OP_MODE] = b,
                        !.regs[RH_RF95_REG_42_VERSION] = v] :
          k \in StuckSet, b \in PowerOnModeSet, v \in {EXPECTED_VERSION, 0} }

InitNew ==
    /\ chip \in PowerOnSet
    /\ last_sent_id = <<>>
    /\ last_received_id = <<>>
    /\ packet_queue = <<>>
    /\ receive_filter_address = RH_BROADCAST_ADDRESS
    /\ acks = FALSE
    /\ call = [op |-> "power_on"]
    /\ heard = <<>>
    /\ high_power = TRUE
    /\ run = Quiet

\* the state after the constructor ended with result r; seen is the
\* operating-mode register as line 387 reads it back (None if not reached)
Constructed(r, frequency, high, seen) ==
    /\ chip' = r.m
    /\ high_power' = high
    /\ call' = [op |-> "new", frequency |-> frequency, status |-> r.status,
                seen |-> seen]
    /\ UNCHANGED <<last_sent_id, last_received_id, packet_queue,
                   receive_filter_address, acks, heard, run>>

\* RFM9x(reset, interrupt, frequency, high_power=high)
New ==
    \E frequency \in {433, Frequency, 1000}, high \in BOOLEAN :
        /\ call.op = "power_on"
        /\ Constructed(Construct(Begin(chip, "reject"), frequency, high, DEFAULT_PREAMBLE),
                       frequency, high,
                       IF read_u8(chip, RH_RF95_REG_42_VERSION) = EXPECTED_VERSION
                         THEN read_u8(EnterLora(chip), RH_RF95_REG_01_OP_MODE)
                         ELSE None)

NextNew == New

SpecNew == InitNew /\ [][NextNew]_vars

(***************************************************************************)
(* Configuration: one setter applied to a constructed driver whose         *)
(* configuration registers hold any of a few bit patterns.                 *)
(***************************************************************************)
\* the driver after RFM9x(reset, interrupt, 915)
Built == Begin(Construct(ResetChip, Frequency, TRUE, DEFAULT_PREAMBLE).m, "reject")

\* the bit-field accessors of the class
AccessorFields ==
    {operation_mode, low_frequency_mode, modulation_type, long_range_mode,
     output_power, max_power, pa_select, pa_dac, dio0_mapping, tx_done, rx_done,
     crc_error}

\* the registers with bit-fields
FieldRegs ==
    {f.address : f \in AccessorFields}
    \cup {RH_RF95_REG_1D_MODEM_CONFIG1, RH_RF95_REG_1E_MODEM_CONFIG2}

\* bit patterns a register with bit-fields holds before a setter runs
ByteSamples == {0, 60, 90, 165, 255}

\* the largest value that fits the width of a field
FieldMax(field) == Shr(field.mask, field.offset)

InitFields ==
    /\ chip \in { [Built EXCEPT !.regs = [r \in DOMAIN Built.regs |->
                                             IF r \in FieldRegs THEN b
                                             ELSE Built.regs[r]]] :
                       b \in ByteSamples }
    /\ last_sent_id = <<>>
    /\ last_received_id = <<>>
    /\ packet_queue = <<>>
    /\ receive_filter_address = RH_BROADCAST_ADDRESS
    /\ acks = FALSE
    /\ call = NoCall
    /\ heard = <<>>
    /\ high_power = TRUE
    /\ run = Quiet

\* the state after a setter left the machine m
Configured(m, record) ==
    /\ call.op = "init"
    /\ chip' = m
    /\ call' = record
    /\ UNCHANGED <<last_sent_id, last_received_id, packet_queue,
                   receive_filter_address, acks, heard, high_power, run>>

\* rfm9x.<field> = val
SetField ==
    \E field \in AccessorFields :
        \E val \in 0 .. FieldMax(field) :
            Configured(RegisterBits_set(Begin(chip, "reject"), field, val),
                       [op |-> "set", field |-> field, val |-> val])

\* values given to the signal_bandwidth setter: the bins, values between
\* and beyond them, and small numbers
BandwidthSet ==
    {bw_bins[i] : i \in 1 .. Len(bw_bins)}
    \cup {0, 7801, 100000, 125001, 250001, 500000, 1000000} \cup (1 .. 15)

\* rfm9x.signal_bandwidth = val
SetBandwidth ==
    \E val \in BandwidthSet :
        Configured(set_signal_bandwidth(Begin(chip, "reject"), val),
                   [op |-> "set_signal_bandwidth", val |-> val])

\* rfm9x.coding_rate = val
SetCodingRate ==
    \E val \in 0 .. 9 :
        Configured(set_coding_rate(Begin(chip, "reject"), val),
                   [op |-> "set_coding_rate", val |-> val])

\* rfm9x.spreading_factor = val
SetSpreadingFactor ==
    \E val \in 0 .. 15 :
        Configured(set_spreading_factor(Begin(chip, "reject"), val),
                   [op |-> "set_spreading_factor", val |-> val])

\* rfm9x.enable_crc = val
SetEnableCrc ==
    \E val \in BOOLEAN :
        Configured(set_enable_crc(Begin(chip, "reject"), val),
                   [op |-> "set_enable_crc", val |-> val])

NextFields ==
    SetField \/ SetBandwidth \/ SetCodingRate \/ SetSpreadingFactor \/ SetEnableCrc

SpecFields == InitFields /\ [][NextFields]_vars

(***************************************************************************)
(* Bandwidth: the setter applied to a driver whose modem configuration     *)
(* register holds any bandwidth index.                                     *)
(***************************************************************************)
\* contents of modem configuration register 1: every bandwidth index over
\* the low bits of the reset value, their complement, none and all
ModemConfigSet == {Shl(bw_id, 4) + low : bw_id \in 0 .. 15, low \in {0, 2, 13, 15}}

InitBandwidth ==
    /\ chip \in { [Built EXCEPT !.regs[RH_RF95_REG_1D_MODEM_CONFIG1] = b] :
                       b \in ModemConfigSet }
    /\ last_sent_id = <<>>
    /\ last_received_id = <<>>
    /\ packet_queue = <<>>
    /\ receive_filter_address = RH_BROADCAST_ADDRESS
    /\ acks = FALSE
    /\ call = NoCall
    /\ heard = <<>>
    /\ high_power = TRUE
    /\ run = Quiet

NextBandwidth == SetBandwidth

SpecBandwidth == InitBandwidth /\ [][NextBandwidth]_vars

(***************************************************************************)
(* Frequency and transmit power: the setters called in any order on a      *)
(* high-power or a low-power unit.                                         *)
(***************************************************************************)
\* the driver after RFM9x(reset, interrupt, 915, high_power=False)
BuiltLow == Begin(Construct(ResetChip, Frequency, FALSE, DEFAULT_PREAMBLE).m, "reject")

InitPower ==
    /\ high_power \in BOOLEAN
    /\ chip = (IF high_power THEN Built ELSE BuiltLow)
    /\ last_sent_id = <<>>
    /\ last_received_id = <<>>
    /\ packet_queue = <<>>
    /\ receive_filter_address = RH_BROADCAST_ADDRESS
    /\ acks = FALSE
    /\ call = NoCall
    /\ heard = <<>>
    /\ run = Quiet

\* the state after a setter returned r
Tuned(r, record) ==
    /\ chip' = r.m
    /\ call' = [record EXCEPT !.status = r.status]
    /\ UNCHANGED <<last_sent_id, last_received_id, packet_queue,
                   receive_filter_address, acks, heard, high_power, run>>

\* powers given to the setter, in half dBm: -3.0, -2.5, ... 25.0
HalfSet == Half(-3) .. Half(25)

\* rfm9x.tx_power = half / 2
SetTxPower ==
    \E half \in HalfSet :
        Tuned(set_tx_power(Begin(chip, "reject"), high_power, half),
              [op |-> "set_tx_power", val |-> half, status |-> "ok"])

\* frequencies given to the setter, in MHz
FrequencySet == {0, 239, 240, 433, 868, Frequency, 960, 961, 1024}

\* rfm9x.frequency_mhz = val
SetFrequency ==
    \E val \in FrequencySet :
        Tuned(set_frequency_mhz(Begin(chip, "reject"), val),
              [op |-> "set_frequency_mhz", val |-> val, status |-> "ok"])

NextPower == SetTxPower \/ SetFrequency

SpecPower == InitPower /\ [][NextPower]_vars

(***************************************************************************)
(* Inputs                                                                  *)
(***************************************************************************)
\* node addresses: one unicast address and the broadcast address
AddrSet == {5, RH_BROADCAST_ADDRESS}

\* header ids that arrive explicitly: unset, and one set id
IdSet == {0, 7}

Blob(n) == [i \in 1 .. n |-> 85]

\* the environments of a completion poll: when transmit-complete rises and
\* how fast the clock runs
EnvSet ==
    { [txAt |-> t, tick |-> k] : t \in {0, 2, Never}, k \in {1, 2} }

Prompt == [txAt |-> 0, tick |-> 1]

TimeoutSet == {0, 1, MaxTimeout}

WideSet == {"reject", "truncate"}

\* headers the application passes: lists, and tuples like the default one
TxHeaderSet ==
    { ListHeader(to, RH_BROADCAST_ADDRESS, id, 0) : to \in AddrSet, id \in IdSet }
    \cup {DefaultTxHeader, TupleHeader(5, RH_BROADCAST_ADDRESS, 7, 0)}

\* the bound on allocated ids: every id allocated so far is at most MaxSeq
IdsLow == \A k \in DOMAIN last_sent_id : last_sent_id[k] <= MaxSeq

MayAllocate(to) == IF to \in DOMAIN last_sent_id THEN last_sent_id[to] < MaxSeq ELSE TRUE

(***************************************************************************)
(* Application calls send(data, timeout, tx_header).                       *)
(***************************************************************************)
\* the state after a call of send with result r
Sent(data, timeout, tx_header, env, r) ==
    /\ chip' = r.m
    /\ last_sent_id' = r.last_sent_id
    /\ call' = [op |-> "send", data |-> data, timeout |-> timeout,
                tx_header |-> tx_header, header_after |-> r.tx_header,
                ids_before |-> last_sent_id,
                never |-> (env.txAt = Never), status |-> r.status,
                elapsed |-> r.elapsed]
    /\ UNCHANGED <<last_received_id, packet_queue, receive_filter_address, acks,
                   heard, high_power, run>>

Send(data, timeout, tx_header, env, wide) ==
    Sent(data, timeout, tx_header, env,
         send(Begin(chip, wide), last_sent_id, data, timeout, tx_header, env))

WithinIdBound(tx_header) ==
    /\ IdsLow
    /\ IF tx_header.v[3] = 0 THEN MayAllocate(tx_header.v[1]) ELSE TRUE

\* send(data) and send(data, tx_header=...), short payloads
AppSend ==
    \E data \in {<<65>>, <<ACK_BYTE, 66>>}, tx_header \in TxHeaderSet :
        /\ WithinIdBound(tx_header)
        /\ Send(data, DEFAULT_TIMEOUT, tx_header, Prompt, "reject")

\* send with a payload of a length outside 1..252
AppSendInvalid ==
    \E data \in {<<>>, Blob(253)}, tx_header \in TxHeaderSet :
        /\ WithinIdBound(tx_header)
        /\ Send(data, DEFAULT_TIMEOUT, tx_header, Prompt, "reject")

\* send with the longest payload it accepts
AppSendLongest ==
    \E to \in AddrSet, wide \in WideSet :
        /\ WithinIdBound(ListHeader(to, RH_BROADCAST_ADDRESS, 0, 0))
        /\ Send(Blob(252), DEFAULT_TIMEOUT,
                ListHeader(to, RH_BROADCAST_ADDRESS, 0, 0), Prompt, wide)

\* send with a timeout, against every environment
AppSendTimed ==
    \E timeout \in TimeoutSet, env \in EnvSet, id \in IdSet :
        /\ WithinIdBound(ListHeader(5, RH_BROADCAST_ADDRESS, id, 0))
        /\ Send(<<65>>, timeout, ListHeader(5, RH_BROADCAST_ADDRESS, id, 0), env, "reject")

\* the destination whose ids run through the whole cycle
CycleAddr == 5

\* plain sends, one list header each, that let ids run up to the rollover
CycleSend ==
    \E to \in AddrSet, id \in IdSet :
        /\ IF to = CycleAddr THEN TRUE ELSE MayAllocate(to)
        /\ Send(<<65>>, DEFAULT_TIMEOUT, ListHeader(to, RH_BROADCAST_ADDRESS, id, 0),
                Prompt, "reject")

\* send with a new list header whose id is 0
AppSendUnset ==
    \E data \in {<<65>>, <<ACK_BYTE, 66>>}, to \in AddrSet, env \in EnvSet :
        /\ WithinIdBound(ListHeader(to, RH_BROADCAST_ADDRESS, 0, 0))
        /\ Send(data, DEFAULT_TIMEOUT, ListHeader(to, RH_BROADCAST_ADDRESS, 0, 0),
                env, "reject")

\* send again with the header object of the previous send, as that call
\* left it
AppSendSame ==
    \E data \in {<<65>>, <<ACK_BYTE, 66>>} :
        /\ call.op = "send"
        /\ WithinIdBound(call.header_after)
        /\ Send(data, DEFAULT_TIMEOUT, call.header_after, Prompt, "reject")

\* sends that pass a header object once or twice
NextSame == AppSendUnset \/ AppSendSame

SpecSame == Init /\ [][NextSame]_vars

\* the application's sends, with allocated ids bounded by MaxSeq
NextSend == AppSend \/ AppSendInvalid \/ AppSendTimed

SpecSend == Init /\ [][NextSend]_vars

\* plain sends only, through the whole id cycle
NextIds == CycleSend

SpecIds == Init /\ [][NextIds]_vars

\* sends of the longest payload among short ones
NextLongest == AppSendLongest \/ AppSend

SpecLongest == Init /\ [][NextLongest]_vars

(***************************************************************************)
(* Reception: the chip receives frames, the interrupt callback and the     *)
(* application call receive_packet, the application drains the queue.      *)
(***************************************************************************)
Driver(m) ==
    [m |-> m, last_sent_id |-> last_sent_id, last_received_id |-> last_received_id,
     receive_filter_address |-> receive_filter_address, acks |-> acks]

\* raw status register values of a reception
RssiRaw == 97

SnrRaw == 41

Frame(to, from, id, flags, payload) == <<to, from, id, flags>> \o payload

\* frames from one source: every combination of destination, id, ACK flag
\* and a payload of the byte 0x21 or of another byte
FramesFrom(from, ids) ==
    { Frame(to, from, id, flags, <<b>>) :
          to \in AddrSet, id \in ids, flags \in {0, FLAGS_ACK}, b \in {ACK_BYTE, 65} }

\* frames on the air: from node 5, with a set or an unset id
FrameSet == FramesFrom(5, IdSet)

\* frames of two nodes that repeat one id; the second node keeps the
\* default source address
PairFrameSet == FramesFrom(5, {7}) \cup FramesFrom(RH_BROADCAST_ADDRESS, {7})

\* the environments of the send of an ACK: transmit-complete rises at once,
\* or never
AckEnvSet == {Prompt, [txAt |-> Never, tick |-> 1]}

\* a reception is complete and not yet read
Pending(m) ==
    RegisterBits_get(m, rx_done) # 0 /\ RegisterBits_get(m, operation_mode) = RX_MODE

\* the frame of the completed reception, as it lies in the FIFO
PendingFrame(m) ==
    LET base == m.regs[RH_RF95_REG_10_FIFO_RX_CURRENT_ADDR]
    IN  [i \in 1 .. m.regs[RH_RF95_REG_13_RX_NB_BYTES] |->
            FifoCell(m, (base + i - 1) % BYTE_RANGE)]

\* the application has not used the radio yet
Setup == call.op \in {"init", "config"}

Configure(what) == call' = [op |-> "config", what |-> what]

\* rfm9x.receive_filter_address = a
SetFilter ==
    \E a \in AddrSet :
        /\ Setup /\ a # receive_filter_address
        /\ receive_filter_address' = a
        /\ Configure("receive_filter_address")
        /\ UNCHANGED <<chip, last_sent_id, last_received_id, packet_queue, acks, heard, high_power, run>>

\* rfm9x.acks = True
SetAcks ==
    /\ Setup /\ ~acks
    /\ acks' = TRUE
    /\ Configure("acks")
    /\ UNCHANGED <<chip, last_sent_id, last_received_id, packet_queue,
                   receive_filter_address, heard, high_power, run>>

\* rfm9x.listen()
Listen ==
    /\ ~(Mode(chip) = RX_MODE /\ RegisterBits_get(chip, dio0_mapping) = 0)
    /\ chip' = listen(Begin(chip, "reject"))
    /\ call' = [op |-> "listen"]
    /\ UNCHANGED <<last_sent_id, last_received_id, packet_queue,
                   receive_filter_address, acks, heard, high_power, run>>

\* the id an ACK for the frame would allocate stays within the bound
FrameWithinIdBound(frame) ==
    IF Len(frame) < 4 THEN TRUE
    ELSE IF acks /\ frame[3] = 0 /\ BitAnd(frame[4], FLAGS_ACK) = 0
      THEN IdsLow /\ MayAllocate(frame[2])
      ELSE TRUE

\* the chip, in RxContinuous, completes the reception of a frame
HwReceiveOf(frames) ==
    \E frame \in frames :
        /\ Mode(chip) = RX_MODE
        /\ RegisterBits_get(chip, rx_done) = 0
        /\ Len(packet_queue) < MaxQueue
        /\ FrameWithinIdBound(frame)
        /\ chip' = HwRxDone(chip, frame, FALSE, RssiRaw, SnrRaw)
        /\ call' = [op |-> "rx", frame |-> frame]
        /\ UNCHANGED <<last_sent_id, last_received_id, packet_queue,
                       receive_filter_address, acks, heard, high_power, run>>

HwReceive == HwReceiveOf(FrameSet)

HwReceivePair == HwReceiveOf(PairFrameSet)

\* the record of a call of receive_packet, direct or from the callback
Received(op, with_header, r) ==
    [op |-> op, with_header |-> with_header,
     pending |-> Pending(chip), frame |-> PendingFrame(chip),
     outcome |-> r.outcome, ret |-> r.ret,
     prev |-> IF Len(PendingFrame(chip)) < 4 THEN <<>>
              ELSE IF PendingFrame(chip)[2] \in DOMAIN heard
                THEN <<heard[PendingFrame(chip)[2]]>> ELSE <<>>]

\* the header of the frame was parsed by the call
Parsed(with_header, r) ==
    /\ with_header
    /\ r.outcome \in {"filtered", "duplicate", "ack", "delivered", "raised"}
    /\ Len(PendingFrame(chip)) >= 4

Hear(with_header, r) ==
    IF Parsed(with_header, r)
      THEN DictSet(heard, PendingFrame(chip)[2],
                   [id |-> PendingFrame(chip)[3], outcome |-> r.outcome])
      ELSE heard

\* the state after a call of receive_packet with result r
Receive(op, with_header, r, queue) ==
    /\ chip' = r.d.m
    /\ last_sent_id' = r.d.last_sent_id
    /\ last_received_id' = r.d.last_received_id
    /\ packet_queue' = queue
    /\ call' = Received(op, with_header, r)
    /\ heard' = Hear(with_header, r)
    /\ UNCHANGED <<receive_filter_address, acks, high_power, run>>

Callback(h) == Receive("interrupt", TRUE, h.r, h.queue)

\* a rising edge of DIO0 runs _handle_interrupt
HandleInterrupt ==
    \E env \in AckEnvSet :
        /\ chip.edge
        /\ Callback(handle_interrupt(
                       Driver(Begin([chip EXCEPT !.edge = FALSE], "reject")),
                       packet_queue, env))

\* the application calls receive_packet(with_header) on a completed reception
AppReceive ==
    \E with_header \in BOOLEAN, env \in AckEnvSet :
        /\ Pending(chip)
        /\ Receive("receive", with_header,
                   receive_packet(Driver(Begin(chip, "reject")), with_header, env),
                   packet_queue)

\* the application takes a packet from the queue
QueueGet ==
    /\ packet_queue # <<>>
    /\ packet_queue' = Tail(packet_queue)
    /\ call' = [op |-> "get", ret |-> Head(packet_queue)]
    /\ UNCHANGED <<chip, last_sent_id, last_received_id, receive_filter_address,
                   acks, heard, high_power, run>>

\* a send of the application between receptions
AppSendPlain ==
    Send(<<65>>, DEFAULT_TIMEOUT, ListHeader(5, RH_BROADCAST_ADDRESS, 7, 0), Prompt,
         "reject")

Next ==
    \/ SetFilter \/ SetAcks \/ Listen \/ HwReceive \/ HandleInterrupt
    \/ AppReceive \/ QueueGet \/ AppSendPlain

Spec == Init /\ [][Next]_vars

\* reception of frames of two sources that repeat one id
NextPairs ==
    \/ SetFilter \/ SetAcks \/ Listen \/ HwReceivePair \/ HandleInterrupt \/ QueueGet

SpecPairs == Init /\ [][NextPairs]_vars

\* rfm9x.transmit(): the application starts the transmitter itself
AppTransmit ==
    /\ Mode(chip) # TX_MODE
    /\ chip' = OnAir(transmit(Begin(chip, "reject")))
    /\ call' = [op |-> "transmit"]
    /\ UNCHANGED <<last_sent_id, last_received_id, packet_queue,
                   receive_filter_address, acks, heard, high_power, run>>

\* the chip, in Tx, completes the transmission and raises transmit-complete
HwTransmitted ==
    /\ Mode(chip) = TX_MODE
    /\ RegisterBits_get(chip, tx_done) = 0
    /\ chip' = HwTxDone(chip)
    /\ call' = [op |-> "tx"]
    /\ UNCHANGED <<last_sent_id, last_received_id, packet_queue,
                   receive_filter_address, acks, heard, high_power, run>>

\* the interrupt bridge: receptions and transmissions the application
\* starts with listen() and transmit()
NextBridge ==
    \/ Listen \/ AppTransmit \/ HwTransmitted \/ HwReceive \/ HandleInterrupt
    \/ QueueGet

SpecBridge == Init /\ [][NextBridge]_vars

\* the number of the next frame on the air: node 5 numbers its frames
\* 1, 2, ... in the id byte, and the FIFO holds the last one received
NextNumber ==
    IF Len(PendingFrame(chip)) < 4 THEN 1 ELSE PendingFrame(chip)[3] + 1

\* the chip, in RxContinuous, completes the reception of the next numbered
\* frame; its payload is its number (as a letter) or the byte 0x21
HwReceiveNumbered ==
    \E to \in AddrSet, b \in {ACK_BYTE, 64 + NextNumber} :
        /\ Mode(chip) = RX_MODE
        /\ RegisterBits_get(chip, rx_done) = 0
        /\ NextNumber <= MaxSeq + 1
        /\ chip' = HwRxDone(chip, Frame(to, 5, NextNumber, 0, <<b>>), FALSE,
                            RssiRaw, SnrRaw)
        /\ call' = [op |-> "rx", frame |-> Frame(to, 5, NextNumber, 0, <<b>>)]
        /\ UNCHANGED <<last_sent_id, last_received_id, packet_queue,
                       receive_filter_address, acks, heard, high_power, run>>

\* the callback fills the queue while the application drains it
NextQueue == Listen \/ HwReceiveNumbered \/ HandleInterrupt \/ QueueGet

SpecQueue == Init /\ [][NextQueue]_vars

\* rfm9x.<field> = val, for values that fit the field and values that do
\* not, on a bus that refuses or truncates a value wider than a byte
SetFieldAny ==
    \E field \in AccessorFields, wide \in WideSet :
        \E val \in (0 .. 2 * FieldMax(field) + 1) \cup {255, 256} :
            Configured(RegisterBits_set(Begin(chip, wide), field, val),
                       [op |-> "set_any", field |-> field, val |-> val])

NextWide == SetFieldAny

SpecWide == InitFields /\ [][NextWide]_vars

\* rfm9x.sleep() or rfm9x.idle()
AppRest ==
    \E op \in {"sleep", "idle"} :
        /\ chip' = (IF op = "sleep" THEN sleep(Begin(chip, "reject"))
                    ELSE idle(Begin(chip, "reject")))
        /\ call' = [op |-> op]
        /\ UNCHANGED <<last_sent_id, last_received_id, packet_queue,
                       receive_filter_address, acks, heard, high_power, run>>

\* the configuration properties
SetterSet ==
    {"frequency_mhz", "tx_power", "signal_bandwidth", "coding_rate",
     "spreading_factor", "enable_crc", "preamble_length"}

\* the machine after rfm9x.<what> = value: a new frequency, power and
\* spreading factor, and the bandwidth, coding rate, CRC setting and
\* preamble length of the constructor written again
Reconfigured(m, what) ==
    CASE what = "frequency_mhz" -> set_frequency_mhz(m, 433).m
      [] what = "tx_power" -> set_tx_power(m, high_power, Half(23)).m
      [] what = "signal_bandwidth" -> set_signal_bandwidth(m, 125000)
      [] what = "coding_rate" -> set_coding_rate(m, 5)
      [] what = "spreading_factor" -> set_spreading_factor(m, 6)
      [] what = "enable_crc" -> set_enable_crc(m, FALSE)
      [] what = "preamble_length" -> set_preamble_length(m, DEFAULT_PREAMBLE).m

\* a configuration setter is called at any time
Reconfigure ==
    \E what \in SetterSet :
        /\ chip' = Reconfigured(Begin(chip, "reject"), what)
        /\ call' = [op |-> "config", what |-> what]
        /\ UNCHANGED <<last_sent_id, last_received_id, packet_queue,
                       receive_filter_address, acks, heard, high_power, run>>

\* frames shorter than a header: one, two and three bytes
ShortFrameSet == {<<ACK_BYTE>>, <<65>>, <<5, 5>>, <<RH_BROADCAST_ADDRESS, 5, 7>>}

\* the chip, in RxContinuous, completes the reception of a frame with a
\* header or of a shorter one
HwReceiveShort == HwReceiveOf(FramesFrom(5, {7}) \cup ShortFrameSet)

\* reception of frames of every length
NextShort ==
    \/ SetFilter \/ SetAcks \/ Listen \/ HwReceiveShort \/ HandleInterrupt
    \/ AppReceive \/ QueueGet

SpecShort == Init /\ [][NextShort]_vars

\* frames of node 5 to this node: the ACK of the packet with id 7 that this
\* node sent to it, and data frames that node 5 numbers itself
AckFrameSet ==
    {Frame(RH_BROADCAST_ADDRESS, 5, 7, FLAGS_ACK, <<ACK_BYTE>>)}
    \cup {Frame(RH_BROADCAST_ADDRESS, 5, id, 0, <<65>>) : id \in {7, 8}}

HwReceiveAck == HwReceiveOf(AckFrameSet)

\* this node sends to node 5 and receives its ACKs and its data frames
NextAck ==
    \/ Listen \/ AppSendPlain \/ HwReceiveAck \/ HandleInterrupt \/ QueueGet

SpecAck == Init /\ [][NextAck]_vars

\* rfm9x.enable_crc = val
SwitchCrc ==
    \E val \in BOOLEAN :
        /\ Setup /\ val # enable_crc(chip)
        /\ chip' = set_enable_crc(Begin(chip, "reject"), val)
        /\ Configure("enable_crc")
        /\ UNCHANGED <<last_sent_id, last_received_id, packet_queue,
                       receive_filter_address, acks, heard, high_power, run>>

\* the chip, in RxContinuous, completes the reception of a frame whose
\* payload CRC is good or bad
HwReceiveCrc ==
    \E frame \in FramesFrom(5, {7}), crc_bad \in BOOLEAN :
        /\ Mode(chip) = RX_MODE
        /\ RegisterBits_get(chip, rx_done) = 0
        /\ Len(packet_queue) < MaxQueue
        /\ chip' = HwRxDone(chip, frame, crc_bad, RssiRaw, SnrRaw)
        /\ call' = [op |-> "rx", frame |-> frame]
        /\ UNCHANGED <<last_sent_id, last_received_id, packet_queue,
                       receive_filter_address, acks, heard, high_power, run>>

\* receptions with good and bad CRC, with CRC checking on or off
NextCrc ==
    \/ SwitchCrc \/ SetAcks \/ Listen \/ HwReceiveCrc \/ HandleInterrupt
    \/ AppReceive \/ QueueGet

SpecCrc == Init /\ [][NextCrc]_vars

(***************************************************************************)
(* The application's send and the interrupt callback, statement by         *)
(* statement: the callback runs on a thread of its own, and the driver     *)
(* takes no lock, so the bus transfers of the two interleave.  run.app and *)
(* run.irq hold the statement each thread is at ("out": not in a call)     *)
(* and its locals.                                                         *)
(***************************************************************************)
\* the machine at the start of a statement: the bus log holds the writes of
\* one statement
Now == Begin(chip, "reject")

\* header ids of the sends that interleave with the callback
StepIdSet == {7}

\* a step of the application's send: the machine, the position, the locals
AppStepTo(m, app) ==
    /\ chip' = m
    /\ run' = [run EXCEPT !.app = app]
    /\ call' = [op |-> "step", thread |-> "app", at |-> run.app.pc]
    /\ UNCHANGED <<last_received_id, packet_queue, receive_filter_address, acks,
                   heard, high_power>>

\* lines 696-710: validation, id allocation, idle()
SendEnter ==
    \E id \in StepIdSet :
        /\ run.app.pc = "out"
        /\ WithinIdBound(ListHeader(5, RH_BROADCAST_ADDRESS, id, 0))
        /\ last_sent_id' = IF id = 0 THEN DictSet(last_sent_id, 5, NextId(last_sent_id, 5))
                           ELSE last_sent_id
        /\ AppStepTo(idle(Now),
                     [pc |-> "ptr",
                      payload |-> <<5, RH_BROADCAST_ADDRESS,
                                    IF id = 0 THEN NextId(last_sent_id, 5) ELSE id,
                                    0, 65>>])

\* line 712: the FIFO pointer reset
SendPointer ==
    /\ run.app.pc = "ptr"
    /\ AppStepTo(write_u8(Now, RH_RF95_REG_0D_FIFO_ADDR_PTR, <<0>>),
                 [run.app EXCEPT !.pc = "fifo"])
    /\ UNCHANGED last_sent_id

\* lines 713-719: header and payload to the FIFO
SendFifoWrite ==
    /\ run.app.pc = "fifo"
    /\ AppStepTo(write_u8(Now, RH_RF95_REG_00_FIFO, run.app.payload),
                 [run.app EXCEPT !.pc = "len"])
    /\ UNCHANGED last_sent_id

\* line 721: the payload length
SendLength ==
    /\ run.app.pc = "len"
    /\ AppStepTo(write_u8(Now, RH_RF95_REG_22_PAYLOAD_LENGTH, <<Len(run.app.payload)>>),
                 [run.app EXCEPT !.pc = "tx"])
    /\ UNCHANGED last_sent_id

\* line 723: transmit()
SendTransmitter ==
    /\ run.app.pc = "tx"
    /\ AppStepTo(OnAir(transmit(Now)), [run.app EXCEPT !.pc = "poll"])
    /\ UNCHANGED last_sent_id

\* lines 726-730: the poll ends when transmit-complete reads as set
SendPollDone ==
    /\ run.app.pc = "poll"
    /\ RegisterBits_get(chip, tx_done) # 0
    /\ AppStepTo(Now, [run.app EXCEPT !.pc = "idle"])
    /\ UNCHANGED last_sent_id

\* lines 726-730: the poll ends when the timeout has passed
SendPollTimeout ==
    /\ run.app.pc = "poll"
    /\ RegisterBits_get(chip, tx_done) = 0
    /\ AppStepTo(Now, [run.app EXCEPT !.pc = "idle"])
    /\ UNCHANGED last_sent_id

\* line 732: idle()
SendIdle ==
    /\ run.app.pc = "idle"
    /\ AppStepTo(idle(Now), [run.app EXCEPT !.pc = "clear"])
    /\ UNCHANGED last_sent_id

\* lines 734-736: clear the flags, return or raise
SendClear ==
    /\ run.app.pc = "clear"
    /\ AppStepTo(write_u8(Now, RH_RF95_REG_12_IRQ_FLAGS, <<255>>), [pc |-> "out"])
    /\ UNCHANGED last_sent_id

\* a step of the callback: the machine, the position, the locals
IrqStepTo(m, irq) ==
    /\ chip' = m
    /\ run' = [run EXCEPT !.irq = irq]
    /\ call' = [op |-> "step", thread |-> "irq", at |-> run.irq.pc]
    /\ UNCHANGED <<last_sent_id, receive_filter_address, acks, heard, high_power>>

\* lines 419-423: a rising edge of DIO0 starts the callback, which tests
\* tx_done, rx_done and the operating mode
IrqEnter ==
    /\ run.irq.pc = "out"
    /\ chip.edge
    /\ IrqStepTo([Now EXCEPT !.edge = FALSE],
                 IF RegisterBits_get(chip, tx_done) = 0
                    /\ RegisterBits_get(chip, rx_done) # 0
                    /\ RegisterBits_get(chip, operation_mode) = RX_MODE
                   THEN [pc |-> "test"] ELSE [pc |-> "out"])
    /\ UNCHANGED <<last_received_id, packet_queue>>

\* lines 740-745: receive_packet tests the flags and the mode, then the CRC
RecvTest ==
    /\ run.irq.pc = "test"
    /\ IF RegisterBits_get(chip, operation_mode) = RH_RF95_MODE_RXCONTINUOUS
          /\ BitAnd(read_u8(chip, RH_RF95_REG_12_IRQ_FLAGS), RH_RF95_RX_DONE) # 0
         THEN IF enable_crc(chip) /\ RegisterBits_get(chip, crc_error) # 0
                THEN IrqStepTo(write_u8(Now, RH_RF95_REG_12_IRQ_FLAGS, <<255>>),
                               [pc |-> "out"])
                ELSE IrqStepTo(Now, [pc |-> "ptr"])
         ELSE IrqStepTo(Now, [pc |-> "out"])
    /\ UNCHANGED <<last_received_id, packet_queue>>

\* lines 747-749: the FIFO pointer is put on the received frame
RecvPointer ==
    /\ run.irq.pc = "ptr"
    /\ IrqStepTo(write_u8(Now, RH_RF95_REG_0D_FIFO_ADDR_PTR,
                          <<read_u8(chip, RH_RF95_REG_10_FIFO_RX_CURRENT_ADDR)>>),
                 [pc |-> "read",
                  packet_len |-> read_u8(chip, RH_RF95_REG_13_RX_NB_BYTES)])
    /\ UNCHANGED <<last_received_id, packet_queue>>

\* lines 750-751: the FIFO read
RecvFifoRead ==
    /\ run.irq.pc = "read"
    /\ IrqStepTo(AfterFifoRead(Now, run.irq.packet_len),
                 [pc |-> "clear", packet |-> read_into(chip, run.irq.packet_len)])
    /\ UNCHANGED <<last_received_id, packet_queue>>

\* lines 752-754: rssi, snr, clear the flags
RecvClear ==
    /\ run.irq.pc = "clear"
    /\ IrqStepTo(write_u8(Now, RH_RF95_REG_12_IRQ_FLAGS, <<255>>),
                 [pc |-> "route", packet |-> run.irq.packet,
                  rssi |-> rssi(chip), snr |-> snr(chip)])
    /\ UNCHANGED <<last_received_id, packet_queue>>

\* the state after the rest of receive_packet and of the callback
Routed(h) ==
    /\ IrqStepTo(h.r.d.m, [pc |-> "out"])
    /\ last_received_id' = h.r.d.last_received_id
    /\ packet_queue' = h.queue

\* lines 755-787 and 425-426: header, filter, duplicate and ACK tests,
\* listen(), and the packet is put on the queue
RecvRoute ==
    /\ run.irq.pc = "route"
    /\ ~acks
    /\ Routed(QueuePut(ReceiveRoute(Driver(Now), Now, run.irq.packet, TRUE,
                                    run.irq.rssi, run.irq.snr, Prompt),
                       packet_queue))

\* the application calls listen() between its sends
StepListen == run.app.pc = "out" /\ Listen

\* frames on the air while the application sends
StepFrameSet == {Frame(RH_BROADCAST_ADDRESS, 5, 7, 0, <<66>>)}

HwReceiveStep == HwReceiveOf(StepFrameSet)

NextSteps ==
    \/ StepListen \/ HwReceiveStep \/ HwTransmitted \/ QueueGet
    \/ SendEnter \/ SendPointer \/ SendFifoWrite \/ SendLength \/ SendTransmitter
    \/ SendPollDone \/ SendPollTimeout \/ SendIdle \/ SendClear
    \/ IrqEnter \/ RecvTest \/ RecvPointer \/ RecvFifoRead \/ RecvClear \/ RecvRoute

SpecSteps == Init /\ [][NextSteps]_vars

\* the mode methods in any order, on registers that hold any of a few bit
\* patterns
NextDio == Listen \/ AppTransmit \/ AppRest \/ HwTransmitted \/ HandleInterrupt

SpecDio == InitFields /\ [][NextDio]_vars

\* every method that writes a register, in any order, with receptions and
\* transmissions in between
NextModes ==
    \/ AppRest \/ Listen \/ AppTransmit \/ AppSendPlain \/ Reconfigure
    \/ HwTransmitted \/ HwReceiveStep \/ HandleInterrupt

SpecModes == Init /\ [][NextModes]_vars

(***************************************************************************)
(* The completion poll of send, iteration by iteration, against a clock.   *)
(* run.app holds the locals of the loop: timeout, timed_out and elapsed,   *)
(* the time since start = time.monotonic() of line 726.                    *)
(***************************************************************************)
\* a test of line 729 that never finds the timeout reached
TimedOut_never(elapsed, timeout) == FALSE

\* line 729: (time.monotonic() - start) >= timeout
TimedOut(elapsed, timeout) == elapsed >= timeout

\* lines 723-727: transmit(), start = time.monotonic(), timed_out = False
PollStart ==
    \E timeout \in TimeoutSet :
        /\ run.app.pc = "tx"
        /\ AppStepTo(OnAir(transmit(Now)),
                     [pc |-> "while", timeout |-> timeout, elapsed |-> 0,
                      timed_out |-> FALSE, seen |-> FALSE])
        /\ UNCHANGED last_sent_id

\* line 728: while not timed_out and not self.tx_done
PollTest ==
    /\ run.app.pc = "while"
    /\ AppStepTo(Now,
                 IF run.app.timed_out THEN [run.app EXCEPT !.pc = "idle"]
                 ELSE IF RegisterBits_get(chip, tx_done) # 0
                   THEN [run.app EXCEPT !.pc = "idle", !.seen = TRUE]
                 ELSE [run.app EXCEPT !.pc = "check"])
    /\ UNCHANGED last_sent_id

\* lines 729-730: if the timeout is reached, timed_out = True
PollCheck ==
    /\ run.app.pc = "check"
    /\ AppStepTo(Now,
                 [run.app EXCEPT !.pc = "while",
                                 !.timed_out = TimedOut(run.app.elapsed, run.app.timeout)])
    /\ UNCHANGED last_sent_id

\* the clock advances by one unit while the loop runs
Tick ==
    /\ run.app.pc \in {"while", "check"}
    /\ run.app.elapsed < MaxTimeout
    /\ run' = [run EXCEPT !.app.elapsed = @ + 1]
    /\ call' = [op |-> "tick"]
    /\ UNCHANGED <<chip, last_sent_id, last_received_id, packet_queue,
                   receive_filter_address, acks, heard, high_power>>

\* the steps of a send once it has passed validation
SendRuns ==
    \/ SendPointer \/ SendFifoWrite \/ SendLength \/ PollStart \/ PollTest
    \/ PollCheck \/ SendIdle \/ SendClear

NextPoll == SendEnter \/ SendRuns \/ Tick \/ HwTransmitted \/ IrqEnter

\* the thread of the application runs and the clock advances
SpecPoll == Init /\ [][NextPoll]_vars /\ WF_vars(SendRuns) /\ WF_vars(Tick)

(***************************************************************************)
(* Properties of send                                                      *)
(***************************************************************************)
IsSend == call.op = "send"

\* the bytes of the (first) FIFO write of the current call
FifoWritten(m) ==
    LET w == SelectSeq(m.log, LAMBDA e : e[1] = RH_RF95_REG_00_FIFO)
    IN  IF Len(w) = 0 THEN <<>> ELSE w[1][2]

C2_DefaultHeaderSend ==
    IsSend /\ call.tx_header = DefaultTxHeader /\ Len(call.data) \in 1 .. 252 =>
        /\ call.status = "ok"
        /\ 255 \in DOMAIN last_sent_id
        /\ FifoWritten(chip) = <<255, 255, last_sent_id[255], 0>> \o call.data

\* C3: a send whose payload is empty or longer than 252 bytes fails and
\* writes no register: mode, FIFO, FIFO pointer, payload length, IRQ flags
\* and last_sent_id are as before the call.
C3_RejectedSend ==
    [][ call'.op = "send" /\ Len(call'.data) \notin 1 .. 252 =>
          /\ call'.status = "AssertionError"
          /\ chip'.log = <<>>
          /\ chip'.regs = chip.regs
          /\ chip'.fifo = chip.fifo
          /\ last_sent_id' = last_sent_id ]_vars

\* C3 witness: a send of 253 bytes was rejected after an earlier send
C3_Witness ==
    /\ IsSend /\ Len(call.data) = 253 /\ call.status = "AssertionError"
    /\ Len(chip.fifo) > 0

\* C4: when transmit-complete is not set before and never rises after send
\* entered Tx mode, send fails with the timeout error, not before timeout
\* clock units have passed since the poll began, and leaves the chip in
\* Standby with no IRQ flag set.
C4_SendTimeout ==
    [][ /\ call'.op = "send" /\ call'.never
        /\ RegisterBits_get(chip, tx_done) = 0
        /\ Len(chip'.air) > 0
        => /\ call'.status = "Timeout"
           /\ call'.elapsed >= call'.timeout
           /\ Mode(chip') = 1
           /\ IrqFlags(chip') = 0 ]_vars

\* C4 witness: a send with a timeout of 3 timed out
C4_Witness ==
    /\ IsSend /\ call.never /\ call.status = "Timeout" /\ call.timeout = 3
    /\ call.elapsed >= 3

\* the register writes of a complete send of the frame bytes, in order
SendWrites(m, bytes) ==
    << <<1, AndNot(m.regs[1], 7) + 1>>, <<13, 0>>, <<0, bytes>>, <<34, Len(bytes)>>,
       <<1, AndNot(m.regs[1], 7) + 3>>, <<64, 64>>,
       <<1, AndNot(m.regs[1], 7) + 1>>, <<18, 255>> >>

\* C5: every send that passes validation writes, in this order, Standby,
\* FIFO pointer 0, header and payload to the FIFO, payload length
\* 4 + len(payload), Tx with DIO0 mapped to transmit-complete; and when
\* transmit-complete is seen it returns with the chip in Standby and the IRQ
\* flags cleared.
C5_SendSequence ==
    [][ call'.op = "send" /\ Len(call'.data) \in 1 .. 252 =>
          /\ Len(chip'.log) = 8
          /\ chip'.log = SendWrites(chip, call'.header_after.v \o call'.data)
          /\ chip'.air = << call'.header_after.v \o call'.data >>
          /\ call'.status \in {"ok", "Timeout"}
          /\ call'.status = "ok" =>
                 Mode(chip') = 1 /\ IrqFlags(chip') = 0 ]_vars

(***************************************************************************)
(* Properties of reception                                                 *)
(***************************************************************************)
\* the step is a call of receive_packet, with header processing, that read
\* the frame of a completed reception
Took ==
    /\ call'.op \in {"interrupt", "receive"}
    /\ call'.with_header
    /\ call'.outcome \in {"filtered", "duplicate", "ack", "delivered", "raised"}
    /\ Len(call'.frame) >= 4

\* the frame carries the id last recorded for its source
Duplicate(frame) ==
    IF frame[2] \in DOMAIN last_received_id
      THEN last_received_id[frame[2]] = frame[3] ELSE FALSE

AckFlag(frame) == BitAnd(frame[4], FLAGS_ACK) # 0

\* the ACK flag is set and the payload is the single byte 0x21
PureAck(frame) == AckFlag(frame) /\ Tail4(frame) = <<ACK_BYTE>>

\* the packet receive_packet makes of a frame
PacketOf(frame) == Packet(Tail4(frame), RssiRaw - 137, <<SnrRaw \div 4, SnrRaw % 4>>)

\* the frame follows, from the same source, a frame with the same id, and
\* both were addressed to the filter address
Repeated(frame) ==
    /\ frame[1] = receive_filter_address
    /\ call'.prev # <<>>
    /\ call'.prev[1].id = frame[3]
    /\ call'.prev[1].outcome # "filtered"

C7_Filter ==
    [][ Took =>
          IF call'.frame[1] # receive_filter_address
            THEN /\ call'.ret = Nothing
                 /\ packet_queue' = packet_queue
                 /\ chip'.air = <<>>
                 /\ last_received_id' = last_received_id
                 /\ Mode(chip') = RX_MODE
            ELSE ~Duplicate(call'.frame) /\ ~PureAck(call'.frame) =>
                 /\ call'.ret = Returned(PacketOf(call'.frame))
                 /\ call'.op = "interrupt" =>
                        packet_queue' = Append(packet_queue, PacketOf(call'.frame)) ]_vars

\* C8: a frame with the ACK flag set whose payload after the header is the
\* single byte 0x21 is not delivered: receive_packet returns nothing,
\* nothing is put on packet_queue, and the chip is in RxContinuous.
C8_PureAckDropped ==
    [][ Took /\ PureAck(call'.frame) =>
          /\ call'.ret = Nothing
          /\ packet_queue' = packet_queue
          /\ Mode(chip') = RX_MODE ]_vars

\* C8 witness: the callback read a pure ACK that is addressed to the filter
\* address and is not a duplicate, and dropped it as an ACK
C8_Witness ==
    /\ call.op = "interrupt" /\ call.outcome = "ack"
    /\ call.frame[4] = FLAGS_ACK /\ Tail4(call.frame) = <<ACK_BYTE>>
    /\ packet_queue = <<>>
    /\ Mode(chip) = RX_MODE

\* C9: a frame received without CRC error, whose to byte is the filter
\* address, whose ACK flag is clear and whose id is not the one last
\* recorded for its source, puts exactly one packet (data without the
\* header, rssi, snr) on the queue, whatever its payload.
C9_DataDelivered ==
    [][ /\ Took /\ call'.op = "interrupt"
        /\ RegisterBits_get(chip, crc_error) = 0
        /\ call'.frame[1] = receive_filter_address
        /\ ~AckFlag(call'.frame)
        /\ ~Duplicate(call'.frame)
        => packet_queue' = Append(packet_queue, PacketOf(call'.frame)) ]_vars

\* C10: with acks enabled, a frame that passes the filter with the ACK flag
\* clear makes receive_packet transmit exactly one frame: header (received
\* from, own filter address, received id, 0x80) and the payload 0x21.
C10_AckFrame ==
    [][ /\ Took /\ acks
        /\ call'.frame[1] = receive_filter_address
        /\ ~AckFlag(call'.frame)
        => chip'.air = << <<call'.frame[2], receive_filter_address,
                            call'.frame[3], FLAGS_ACK, ACK_BYTE>> >> ]_vars

\* the step is a call of receive_packet, by the application or by the
\* callback, that found the chip in RxContinuous with receive-complete set
Invoked ==
    /\ call'.op \in {"interrupt", "receive"}
    /\ call'.pending
    /\ call'.outcome # "tx_done"

\* C11: every call of receive_packet that finds the chip in RxContinuous
\* with receive-complete set ends with the chip in RxContinuous, whatever
\* the outcome and also when an ACK is sent on the way.
C11_BackToListen ==
    [][ Invoked => Mode(chip') = RX_MODE ]_vars

\* C12: whenever the callback runs while receive-complete is set and the
\* chip is in RxContinuous, it calls receive_packet and puts a result that
\* is not empty on packet_queue, whatever the transmit-complete flag.
C12_CallbackReceives ==
    [][ call'.op = "interrupt" /\ call'.pending =>
          /\ call'.outcome \notin {"tx_done", "none"}
          /\ packet_queue' = packet_queue \o call'.ret ]_vars

\* an application send is in flight: its FIFO pointer reset is done and
\* its completion poll has not ended
InFlight == run.app.pc \in {"fifo", "len", "tx", "poll"}

\* receive_packet has repositioned the FIFO pointer and not yet read the FIFO
Draining == run.irq.pc = "read"

\* the step writes the register through the bus
Wrote(register) == \E i \in 1 .. Len(chip'.log) : chip'.log[i][1] = register

\* C13: while an application send is in flight no step of the callback
\* writes the FIFO pointer, reads or writes the FIFO or changes the
\* operating mode, and no step of an application send occurs between the
\* FIFO pointer reposition of receive_packet and the end of its FIFO read.
C13_Exclusion ==
    [][ /\ InFlight /\ run'.irq # run.irq =>
              /\ ~Wrote(RH_RF95_REG_0D_FIFO_ADDR_PTR)
              /\ ~Wrote(RH_RF95_REG_00_FIFO)
              /\ chip'.access = <<>>
              /\ Mode(chip') = Mode(chip)
        /\ Draining => run'.app = run.app ]_vars

\* the number of the frame a packet was made of
NumberOf(packet) == packet.data[1] - 64

\* the packets of the queue are in the order of their frames, each once
InOrder(queue) ==
    \A i, j \in 1 .. Len(queue) : i < j => NumberOf(queue[i]) < NumberOf(queue[j])

\* C14: packets are taken from packet_queue in the order in which their
\* frames were received, and every packet receive_packet returns to the
\* callback is on the queue exactly once: the callback appends it, the
\* application takes the oldest one, and the queue holds the packets in the
\* order of their frames.
C14_QueueOrder ==
    [][ /\ InOrder(packet_queue')
        /\ call'.op = "interrupt" => packet_queue' = packet_queue \o call'.ret
        /\ call'.op = "get" =>
              /\ packet_queue = <<call'.ret>> \o packet_queue'
              /\ \A i \in 1 .. Len(packet_queue') :
                     NumberOf(call'.ret) < NumberOf(packet_queue'[i]) ]_vars

\* C14 witness: the application took the packet of frame 1 while the
\* packets of the frames 2 and 3 wait on the queue in that order
C14_Witness ==
    /\ call.op = "get" /\ NumberOf(call.ret) = 1
    /\ Len(packet_queue) = 2
    /\ NumberOf(packet_queue[1]) = 2 /\ NumberOf(packet_queue[2]) = 3

\* C15: every access to the FIFO data register, in send and in
\* receive_packet alike, happens while the operating mode is Standby.
C15_FifoInStandby ==
    \A i \in 1 .. Len(chip.access) : chip.access[i] = STANDBY_MODE

\* the readback of line 387 shows Sleep and the long-range bit
LoraVerified(seen) ==
    /\ seen # None
    /\ seen % 8 = SLEEP_MODE
    /\ BitAnd(seen, long_range_mode.mask) # 0

\* C16: the constructor writes the long-range bit only after it has written
\* the mode Sleep, and unless the mode then reads back as Sleep and the
\* long-range bit as set it fails without writing any further register.
C16_LoraInit ==
    [][ call'.op = "new" =>
          /\ Len(chip'.log) >= 1 =>
                 /\ chip'.log[1][1] = RH_RF95_REG_01_OP_MODE
                 /\ chip'.log[1][2] % 8 = SLEEP_MODE
          /\ Len(chip'.log) >= 2 =>
                 /\ chip'.log[2][1] = RH_RF95_REG_01_OP_MODE
                 /\ BitAnd(chip'.log[2][2], long_range_mode.mask) # 0
          /\ ~LoraVerified(call'.seen) =>
                 /\ call'.status = "RuntimeError"
                 /\ Len(chip'.log) <= 2
                 /\ \A r \in DOMAIN chip.regs :
                        r # RH_RF95_REG_01_OP_MODE => chip'.regs[r] = chip.regs[r]
          /\ Len(chip'.log) > 2 => LoraVerified(call'.seen) ]_vars

\* C16 witness: on a chip whose long-range bit does not take the write the
\* mode read back as Sleep, and the constructor failed after its two writes
C16_Witness ==
    /\ call.op = "new" /\ call.status = "RuntimeError"
    /\ call.seen # None /\ call.seen % 8 = SLEEP_MODE /\ call.seen < 128
    /\ Len(chip.log) = 2
    /\ chip.regs[RH_RF95_REG_0E_FIFO_TX_BASE_ADDR] = 128

\* the bits of the register outside the mask are as before the step
Kept(address, mask) == AndNot(chip'.regs[address], mask) = AndNot(chip.regs[address], mask)

\* the fields of the IRQ flags register: a 1 written to a flag clears it
IrqFields == {tx_done, rx_done, crc_error}

\* C17 as stated: for every bit-field, the bandwidth, coding-rate,
\* spreading-factor and CRC-enable fields included, and every value that
\* fits the width of the field, the value set is the value read, and the
\* bits of the register outside the field are unchanged.
C17_Stated ==
    [][ /\ call'.op = "set" =>
              /\ RegisterBits_get(chip', call'.field) = call'.val
              /\ Kept(call'.field.address, call'.field.mask)
        /\ call'.op = "set_signal_bandwidth" /\ call'.val \in 0 .. 15 =>
              /\ signal_bandwidth(chip') = call'.val
              /\ Kept(RH_RF95_REG_1D_MODEM_CONFIG1, 240)
        /\ call'.op = "set_coding_rate" /\ call'.val \in 0 .. 7 =>
              /\ coding_rate(chip') = call'.val
              /\ Kept(RH_RF95_REG_1D_MODEM_CONFIG1, 14)
        /\ call'.op = "set_spreading_factor" /\ call'.val \in 0 .. 15 =>
              /\ spreading_factor(chip') = call'.val
              /\ Kept(RH_RF95_REG_1E_MODEM_CONFIG2, 240)
        /\ call'.op = "set_enable_crc" =>
              /\ enable_crc(chip') = call'.val
              /\ Kept(RH_RF95_REG_1E_MODEM_CONFIG2, 4) ]_vars

\* C17: for every accessor field outside the IRQ flags register and every
\* value that fits its width, and for signal_bandwidth set to a bin value
\* or 500000, coding_rate to 5..8, spreading_factor to 6..12 and enable_crc
\* to a boolean, the value set is the value read; whatever value these
\* setters are given, the bits of the register outside the field are
\* unchanged.
C17_FieldRoundTrip ==
    [][ /\ call'.op = "set" /\ call'.field \notin IrqFields =>
              /\ RegisterBits_get(chip', call'.field) = call'.val
              /\ Kept(call'.field.address, call'.field.mask)
        /\ call'.op = "set_signal_bandwidth" =>
              /\ Kept(RH_RF95_REG_1D_MODEM_CONFIG1, 240)
              /\ (call'.val = 500000 \/ \E i \in 1 .. Len(bw_bins) : bw_bins[i] = call'.val)
                     => signal_bandwidth(chip') = call'.val
        /\ call'.op = "set_coding_rate" =>
              /\ Kept(RH_RF95_REG_1D_MODEM_CONFIG1, 14)
              /\ call'.val \in 5 .. 8 => coding_rate(chip') = call'.val
        /\ call'.op = "set_spreading_factor" =>
              /\ Kept(RH_RF95_REG_1E_MODEM_CONFIG2, 240)
              /\ call'.val \in 6 .. 12 => spreading_factor(chip') = call'.val
        /\ call'.op = "set_enable_crc" =>
              /\ Kept(RH_RF95_REG_1E_MODEM_CONFIG2, 4)
              /\ enable_crc(chip') = call'.val ]_vars

\* C17 witness: output_power was set to 5 in a register whose other bits
\* are all 1, and they still are
C17_Witness ==
    /\ call.op = "set" /\ call.field = output_power /\ call.val = 5
    /\ chip.regs[RH_RF95_REG_09_PA_CONFIG] = 245

\* the step was a call of a setter that failed before any register write
Rejected ==
    /\ call'.status # "ok"
    /\ chip'.log = <<>>
    /\ chip'.regs = chip.regs

\* the lowest and the highest power of the unit, in dBm
PowerMin == IF high_power THEN 5 ELSE -1
PowerMax == IF high_power THEN 23 ELSE 14

\* C18 as stated: frequency_mhz set to a value outside [240, 960], or
\* tx_power set to a value outside [5, 23] on a high-power unit or outside
\* [-1, 14] on a low-power unit, fails with an error before any register
\* write and leaves every register unchanged.
C18_Stated ==
    [][ /\ call'.op = "set_frequency_mhz" /\ (call'.val < 240 \/ call'.val > 960)
              => Rejected
        /\ call'.op = "set_tx_power"
              /\ (call'.val < Half(PowerMin) \/ call'.val > Half(PowerMax))
              => Rejected ]_vars

\* C18: frequency_mhz set to a value outside [240, 960], or tx_power set to
\* a value whose integer part (the value with its fraction dropped) is
\* outside [5, 23] on a high-power unit or outside [-1, 14] on a low-power
\* unit, fails with an error before any register write and leaves every
\* register unchanged; every other value is accepted.
C18_RangeChecked ==
    [][ /\ call'.op = "set_frequency_mhz" =>
              IF call'.val < 240 \/ call'.val > 960
                THEN Rejected ELSE call'.status = "ok"
        /\ call'.op = "set_tx_power" =>
              IF Trunc(call'.val) < PowerMin \/ Trunc(call'.val) > PowerMax
                THEN Rejected ELSE call'.status = "ok" ]_vars

\* C18 witness: 24 dBm was refused on a high-power unit that had been set
\* to 23 dBm and still is
C18_Witness ==
    /\ call.op = "set_tx_power" /\ call.val = Half(24) /\ call.status = "RuntimeError"
    /\ high_power
    /\ RegisterBits_get(chip, output_power) = 15
    /\ chip.log = <<>>

\* C19: on a high-power unit, tx_power set to v in 5..20 disables the PA DAC
\* boost and stores v - 5 in the output-power field, v in 21..23 enables the
\* boost and stores v - 8; tx_power then reads the field plus 5: v up to 20,
\* v - 3 above.
C19_PowerEncoding ==
    [][ call'.op = "set_tx_power" /\ high_power =>
          \A v \in 5 .. 23 :
              call'.val = Half(v) =>
                  /\ call'.status = "ok"
                  /\ RegisterBits_get(chip', pa_select) = 1
                  /\ tx_power(chip', TRUE) = RegisterBits_get(chip', output_power) + 5
                  /\ IF v <= 20
                        THEN /\ RegisterBits_get(chip', pa_dac) = RH_RF95_PA_DAC_DISABLE
                             /\ RegisterBits_get(chip', output_power) = v - 5
                             /\ tx_power(chip', TRUE) = v
                        ELSE /\ RegisterBits_get(chip', pa_dac) = RH_RF95_PA_DAC_ENABLE
                             /\ RegisterBits_get(chip', output_power) = v - 8
                             /\ tx_power(chip', TRUE) = v - 3 ]_vars

\* C19 witness: a high-power unit set to 23 dBm has the boost enabled,
\* stores 15 and reads 20
C19_Witness ==
    /\ call.op = "set_tx_power" /\ call.val = Half(23) /\ call.status = "ok"
    /\ high_power
    /\ RegisterBits_get(chip, pa_dac) = RH_RF95_PA_DAC_ENABLE
    /\ RegisterBits_get(chip, output_power) = 15
    /\ tx_power(chip, TRUE) = 20

\* the bandwidth index held by the modem configuration register
BwId(m) == Shr(m.regs[RH_RF95_REG_1D_MODEM_CONFIG1], 4)

\* C20: signal_bandwidth set to val selects the index of the smallest bin
\* that is not below val, and index 9 when val exceeds every bin; reading
\* signal_bandwidth returns the value of the bin of the index held, and
\* 500000 for every index from 9 up, so 100000 reads back 125000 and
\* 1000000 reads back 500000.
C20_BandwidthBin ==
    [][ /\ BwId(chip) >= 9 => signal_bandwidth(chip) = 500000
        /\ BwId(chip) < 9 => signal_bandwidth(chip) = bw_bins[BwId(chip) + 1]
        /\ call'.op = "set_signal_bandwidth" =>
              /\ IF call'.val > bw_bins[Len(bw_bins)]
                    THEN /\ BwId(chip') = 9
                         /\ signal_bandwidth(chip') = 500000
                    ELSE /\ BwId(chip') < 9
                         /\ bw_bins[BwId(chip') + 1] >= call'.val
                         /\ \A j \in 1 .. BwId(chip') : bw_bins[j] < call'.val
                         /\ signal_bandwidth(chip') = bw_bins[BwId(chip') + 1]
              /\ call'.val = 100000 => signal_bandwidth(chip') = 125000
              /\ call'.val = 1000000 => signal_bandwidth(chip') = 500000 ]_vars

\* C20 witness: 100000 was set, index 7 is held and 125000 is read back
C20_Witness ==
    /\ call.op = "set_signal_bandwidth" /\ call.val = 100000
    /\ chip.regs[RH_RF95_REG_1D_MODEM_CONFIG1] = Shl(7, 4) + 13
    /\ signal_bandwidth(chip) = 125000

\* the CRC-enable bit of modem configuration register 2 and the CRC-error
\* flag are both set
CrcFailed(m) ==
    /\ BitAnd(m.regs[RH_RF95_REG_1E_MODEM_CONFIG2], 4) # 0
    /\ BitAnd(m.regs[RH_RF95_REG_12_IRQ_FLAGS], RH_RF95_PAYLOAD_CRC_ERROR) # 0

\* C21: a call of receive_packet on a completed reception drops it for a
\* CRC error exactly when CRC checking is enabled and the CRC-error flag is
\* set; it then clears the IRQ flags and returns nothing, with no FIFO
\* access, no frame transmitted, last_received_id and the queue unchanged
\* and the chip still in RxContinuous.
C21_CrcDrop ==
    [][ call'.op \in {"interrupt", "receive"} /\ call'.pending
        /\ call'.outcome # "tx_done" =>
          /\ call'.outcome = "crc" <=> CrcFailed(chip)
          /\ call'.outcome = "crc" =>
                /\ chip'.log = << <<RH_RF95_REG_12_IRQ_FLAGS, 255>> >>
                /\ IrqFlags(chip') = 0
                /\ call'.ret = Nothing
                /\ chip'.access = <<>>
                /\ chip'.air = <<>>
                /\ last_received_id' = last_received_id
                /\ last_sent_id' = last_sent_id
                /\ packet_queue' = packet_queue
                /\ Mode(chip') = RX_MODE ]_vars

\* C21 witness: with acks on, the callback dropped a data frame for its CRC
C21_Witness ==
    /\ call.op = "interrupt" /\ call.outcome = "crc"
    /\ acks
    /\ call.frame = Frame(RH_BROADCAST_ADDRESS, 5, 7, 0, <<65>>)
    /\ IrqFlags(chip) = 0

\* the completion poll is running
Polling == run.app.pc \in {"while", "check"}

\* C22: every send that passed validation terminates: the completion poll
\* is left, and only after transmit-complete was read as set or the time
\* since its start was found to have reached timeout; once either has
\* happened the next test of the loop condition leaves it.
C22_SendTerminates ==
    /\ (run.app.pc # "out") ~> (run.app.pc = "out")
    /\ [][ /\ (Polling /\ ~Polling') =>
                 (\/ run'.app.seen /\ RegisterBits_get(chip, tx_done) # 0
                  \/ /\ run'.app.timed_out /\ ~run'.app.seen
                     /\ run'.app.elapsed >= run'.app.timeout)
           /\ (run.app.pc = "while" /\ run'.app.pc # "while"
                  /\ (run.app.timed_out \/ RegisterBits_get(chip, tx_done) # 0))
                 => ~Polling' ]_vars

\* C22 witness: the poll of a send with the longest timeout was left on the
\* timeout, transmit-complete never having been raised
C22_Witness ==
    /\ run.app.pc = "idle"
    /\ run.app.timed_out /\ ~run.app.seen
    /\ run.app.timeout = MaxTimeout /\ run.app.elapsed = MaxTimeout
    /\ RegisterBits_get(chip, tx_done) = 0

\* the step is a call of receive_packet on a completed reception
OnReception == call'.op \in {"interrupt", "receive"} /\ call'.pending

\* the conditions of the ACK stated for the received frame
Answerable(frame) ==
    /\ acks
    /\ Len(frame) >= 4
    /\ frame[1] = receive_filter_address
    /\ BitAnd(frame[4], FLAGS_ACK) = 0

Masked(m, field, val) ==
    BitOr(AndNot(m.regs[field.address], field.mask),
          BitAnd(Shl(val, field.offset), field.mask))

\* C24: for every bit-field and every value, wider than the field or not,
\* set writes the register once, with the byte in which the bits of the
\* field are replaced by (value << offset) & mask and every other bit is as
\* before; the value written is a byte.
C24_MaskedWrite ==
    [][ call'.op = "set_any" =>
          /\ ~chip'.fault
          /\ Len(chip'.log) = 1
          /\ chip'.log[1] = <<call'.field.address, Masked(chip, call'.field, call'.val)>>
          /\ IsByte(chip'.log[1][2]) ]_vars

\* C25: after a successful initialization the long-range (LoRa) bit of the
\* operating-mode register is set in every state that calls of sleep,
\* idle, listen, transmit, send, receive_packet and the configuration
\* setters lead to.
C25_LoraStays ==
    BitAnd(chip.regs[RH_RF95_REG_01_OP_MODE], long_range_mode.mask) # 0

\* C25 witness: the chip was put to sleep after the frequency was changed
\* and a packet was received
C25_Witness ==
    /\ call.op = "sleep" /\ Mode(chip) = SLEEP_MODE
    /\ chip.regs[RH_RF95_REG_06_FRF_MSB] = 108
    /\ last_received_id # <<>>
    /\ C25_LoraStays

\* the id byte of the frame the call transmitted
AirId(m) == m.air[1][3]

\* C26: send leaves the header object it is given as it was, and a second
\* send with the same object, whose id was 0, transmits the id that follows
\* the one the first send transmitted.
C26_HeaderKept ==
    [][ call'.op = "send" /\ call'.status = "ok" =>
          /\ call'.header_after = call'.tx_header
          /\ (call.op = "send" /\ call'.tx_header = call.header_after) =>
                /\ AirId(chip') # AirId(chip)
                /\ AirId(chip') = NextId(call'.ids_before, call'.tx_header.v[1]) ]_vars

\* C27: a data frame (ACK flag clear, matching the filter) is discarded as
\* a duplicate only if the frame last taken from its source carried the
\* same id and was a data frame, not an ACK frame.
C27_DuplicateOfData ==
    [][ (OnReception /\ call'.outcome = "duplicate"
           /\ BitAnd(call'.frame[4], FLAGS_ACK) = 0) =>
          /\ call'.prev # <<>>
          /\ call'.prev[1].id = call'.frame[3]
          /\ call'.prev[1].outcome # "ack" ]_vars

\* C28: every packet the callback puts on packet_queue comes from a frame
\* of at least 4 bytes whose to byte is the filter address, and its data are
\* the bytes of the frame after the 4-byte header.
C28_QueuedFiltered ==
    [][ (call'.op = "interrupt" /\ packet_queue' # packet_queue) =>
          /\ Len(call'.frame) >= 4
          /\ call'.frame[1] = receive_filter_address
          /\ packet_queue' = Append(packet_queue,
                                    Packet(Tail4(call'.frame), rssi(chip), snr(chip))) ]_vars

====
